---- MODULE Spec2Model ----
(***************************************************************************)
(* Model of the question-answering agent of src/agent.py.                  *)
(*                                                                         *)
(* Text is modelled as a sequence of units.  A unit is one character, or   *)
(* one word that the code only ever handles as a whole (a marker such as   *)
(* "USE_TOOL" or "FORMULA", a tool name, an opaque formula).  Python's     *)
(* substring test, find, split, strip and slicing are computed on these    *)
(* sequences as Python computes them on characters.  Wherever the code     *)
(* does arithmetic on lengths and offsets (the snippet window, the n-gram  *)
(* filters) the text is spelled out character by character.                *)
(***************************************************************************)
EXTENDS Integers, Sequences, FiniteSets, TLC

\* ------------------------------------------------------------------------
\* Bounds
\* ------------------------------------------------------------------------

\* largest max_iterations a caller passes to conceptual_question
MaxIter == 2

\* number of phrases an LLM reply of the tool loop is made of
MaxPhrases == 2

\* ------------------------------------------------------------------------
\* Text helpers (Python str operations on token sequences)
\* ------------------------------------------------------------------------

\* s[i:j] for 0 <= i, j (0-based, end exclusive), clamped like Python
Slice(s, i, j) ==
    LET lo == IF i < 0 THEN 0 ELSE i
        hi == IF j > Len(s) THEN Len(s) ELSE j
    IN  IF hi <= lo THEN << >> ELSE SubSeq(s, lo + 1, hi)

\* sub occurs in s at 0-based offset i
OccursAt(s, sub, i) ==
    /\ i >= 0
    /\ i + Len(sub) <= Len(s)
    /\ \A k \in 1..Len(sub) : s[i + k] = sub[k]

\* s.find(sub): the least offset of an occurrence, -1 when there is none
Find(s, sub) ==
    IF \E i \in 0..Len(s) : OccursAt(s, sub, i)
    THEN CHOOSE i \in 0..Len(s) :
            /\ OccursAt(s, sub, i)
            /\ \A j \in 0..(i - 1) : ~OccursAt(s, sub, j)
    ELSE -1

\* sub in s
Contains(s, sub) == Find(s, sub) # -1

\* s.strip(): leading and trailing blanks removed
IsBlank(t) == t \in {" ", "\n"}

RECURSIVE LStrip(_)
LStrip(s) ==
    IF s # << >> /\ IsBlank(Head(s)) THEN LStrip(Tail(s)) ELSE s

RECURSIVE RStrip(_)
RStrip(s) ==
    IF s # << >> /\ IsBlank(s[Len(s)]) THEN RStrip(SubSeq(s, 1, Len(s) - 1)) ELSE s

Strip(s) == RStrip(LStrip(s))

\* s.split(sep): every non-overlapping occurrence of sep, left to right, cuts
RECURSIVE Split(_, _)
Split(s, sep) ==
    LET i == Find(s, sep)
    IN  IF i = -1 THEN << s >>
        ELSE << Slice(s, 0, i) >> \o Split(Slice(s, i + Len(sep), Len(s)), sep)

\* s.split(sep, 1): only the first occurrence of sep cuts
SplitOnce(s, sep) ==
    LET i == Find(s, sep)
    IN  IF i = -1 THEN << s >>
        ELSE << Slice(s, 0, i), Slice(s, i + Len(sep), Len(s)) >>

\* s.startswith(prefix)
StartsWith(s, prefix) == OccursAt(s, prefix, 0)

\* sep.join(parts)
RECURSIVE Join(_, _)
Join(parts, sep) ==
    IF parts = << >> THEN << >>
    ELSE IF Len(parts) = 1 THEN parts[1]
    ELSE parts[1] \o sep \o Join(Tail(parts), sep)

\* s.replace(sub, ''): every occurrence of sub removed
Remove(s, sub) == Join(Split(s, sub), << >>)

\* s.strip(chars): leading and trailing tokens of the set removed
RECURSIVE StripChars(_, _)
StripChars(s, chars) ==
    IF s # << >> /\ Head(s) \in chars THEN StripChars(Tail(s), chars)
    ELSE IF s # << >> /\ s[Len(s)] \in chars
         THEN StripChars(SubSeq(s, 1, Len(s) - 1), chars)
    ELSE s

\* s.find(tok, from): the least offset >= from holding tok, else -1
FindFrom(s, tok, from) ==
    LET hits == { k \in 0..(Len(s) - 1) : k >= from /\ s[k + 1] = tok }
    IN  IF hits = {} THEN -1 ELSE CHOOSE k \in hits : \A j \in hits : k <= j

\* s.rfind(tok, lo, hi): the greatest offset in [lo, hi) holding tok, else -1
RFind(s, tok, lo, hi) ==
    LET hits == { k \in 0..(Len(s) - 1) : k >= lo /\ k < hi /\ s[k + 1] = tok }
    IN  IF hits = {} THEN -1 ELSE CHOOSE k \in hits : \A j \in hits : k >= j

\* str.lower(), unit by unit
LowerTok(t) ==
    CASE t = "A" -> "a"
      [] t = "B" -> "b"
      [] t = "C" -> "c"
      [] t = "D" -> "d"
      [] t = "E" -> "e"
      [] t = "F" -> "f"
      [] t = "G" -> "g"
      [] t = "H" -> "h"
      [] t = "I" -> "i"
      [] t = "J" -> "j"
      [] t = "K" -> "k"
      [] t = "L" -> "l"
      [] t = "M" -> "m"
      [] t = "N" -> "n"
      [] t = "O" -> "o"
      [] t = "P" -> "p"
      [] t = "Q" -> "q"
      [] t = "R" -> "r"
      [] t = "S" -> "s"
      [] t = "T" -> "t"
      [] t = "U" -> "u"
      [] t = "V" -> "v"
      [] t = "W" -> "w"
      [] t = "X" -> "x"
      [] t = "Y" -> "y"
      [] t = "Z" -> "z"
      [] OTHER -> t

Lower(s) == [k \in 1..Len(s) |-> LowerTok(s[k])]

\* s.split(): the runs of non-blank tokens
RECURSIVE Words(_)
Words(s) ==
    LET t == LStrip(s)
    IN  IF t = << >> THEN << >>
        ELSE LET blanks == { k \in 1..Len(t) : IsBlank(t[k]) }
                 n == IF blanks = {} THEN Len(t) + 1
                      ELSE CHOOSE k \in blanks : \A j \in blanks : k <= j
             IN  << SubSeq(t, 1, n - 1) >> \o Words(SubSeq(t, n, Len(t)))

\* ------------------------------------------------------------------------
\* The conceptual-question flow: inputs
\* ------------------------------------------------------------------------

\* the registered tools, in registration order (two share a name)
tools ==
    << [name |-> << "SEC_SEARCH" >>, func |-> "sec_search_tool"],
       [name |-> << "WEB_SEARCH" >>, func |-> "web_search_tool"],
       [name |-> << "SEC_SEARCH" >>, func |-> "second_sec_tool"] >>

\* what a tool function returns when it returns
ToolOutput(func) == << "out", func >>

\* the phrases an LLM reply is made of
Phrases ==
    { << "USE_TOOL", ":", " ", "SEC_SEARCH", " ", "with", " ", "q", " " >>,
      << "USE_TOOL", ":", "WEB_SEARCH", "with", "q", "with", "r" >>,
      << "USE_TOOL", ":", " ", "NO_TOOL", " ", "with", " ", "q" >>,
      << "USE_TOOL", ":", " ", "SEC_SEARCH", " ", "q" >>,
      << "USE_TOOL", " ", "SEC_SEARCH", " ", "with", " ", "q" >>,
      << "SYNTHESIZE", ":", " ", "a", " " >>,
      << "SYNTHESIZE", " ", "b" >>,
      << "NEED_MORE", ":", " ", "c" >>,
      << " ", "hm", " " >> }

\* the replies llm.invoke can return: up to MaxPhrases phrases in a row
RECURSIVE RepliesOf(_)
RepliesOf(n) ==
    IF n = 0 THEN { << >> }
    ELSE RepliesOf(n - 1) \cup { r \o p : r \in RepliesOf(n - 1), p \in Phrases }

Replies == RepliesOf(MaxPhrases)

FAILED_TO_SYNTHESIZE == << "Agent failed to synthesize a final answer in time." >>

\* ------------------------------------------------------------------------
\* parse_decision
\* ------------------------------------------------------------------------

Decision(t, d) == [raised |-> FALSE, type |-> t, detail |-> d]
IndexError == [raised |-> TRUE, type |-> "IndexError", detail |-> << >>]

\* x.split(marker)[1].strip(): IndexError when the marker with its colon is absent
SecondPiece(response, marker) ==
    LET parts == Split(response, marker)
    IN  IF Len(parts) < 2 THEN IndexError ELSE [raised |-> FALSE, text |-> Strip(parts[2])]

parse_decision(response) ==
    IF Contains(response, << "USE_TOOL" >>) THEN
        LET p == SecondPiece(response, << "USE_TOOL", ":" >>)
        IN  IF p.raised THEN IndexError ELSE Decision("USE_TOOL", p.text)
    ELSE IF Contains(response, << "SYNTHESIZE" >>) THEN
        LET p == SecondPiece(response, << "SYNTHESIZE", ":" >>)
        IN  IF p.raised THEN IndexError ELSE Decision("SYNTHESIZE", p.text)
    ELSE IF Contains(response, << "NEED_MORE" >>) THEN
        Decision("NEED_MORE", << >>)
    ELSE
        Decision("UNKNOWN", response)

\* ------------------------------------------------------------------------
\* Dictionaries (Python dict: insertion-ordered, one value per key)
\* ------------------------------------------------------------------------

DictHas(d, key) == \E n \in 1..Len(d) : d[n].k = key

DictGet(d, key) == d[CHOOSE n \in 1..Len(d) : d[n].k = key].v

\* d[key] = val: an existing key keeps its place
DictSet(d, key, val) ==
    IF DictHas(d, key)
    THEN [n \in 1..Len(d) |-> IF d[n].k = key THEN [k |-> key, v |-> val] ELSE d[n]]
    ELSE Append(d, [k |-> key, v |-> val])

\* ------------------------------------------------------------------------
\* json.loads, for the documents the replies of this model hold: an object
\* whose values are arrays of strings.  Anything else fails to decode.
\* Positions are 1-based.
\* ------------------------------------------------------------------------

JFail == [ok |-> FALSE, val |-> << >>, next |-> 0]

JDone(val, next) == [ok |-> TRUE, val |-> val, next |-> next]

\* the first position >= p that holds no white space (Len(s) + 1 at the end)
SkipWs(s, p) ==
    CHOOSE q \in p..(Len(s) + 1) :
        /\ q = Len(s) + 1 \/ ~IsBlank(s[q])
        /\ \A r \in p..(q - 1) : IsBlank(s[r])

AtTok(s, p, tok) == p <= Len(s) /\ s[p] = tok

JString(s, p) ==
    IF ~AtTok(s, p, "\"") THEN JFail
    ELSE LET qs == { q \in (p + 1)..Len(s) : s[q] = "\"" }
         IN  IF qs = {} THEN JFail
             ELSE LET q == CHOOSE x \in qs : \A y \in qs : x <= y
                  IN  JDone(SubSeq(s, p + 1, q - 1), q + 1)

RECURSIVE JItems(_, _, _)
JItems(s, p, acc) ==
    LET st == JString(s, SkipWs(s, p))
    IN  IF ~st.ok THEN JFail
        ELSE LET q == SkipWs(s, st.next)
             IN  IF AtTok(s, q, ",") THEN JItems(s, q + 1, Append(acc, st.val))
                 ELSE IF AtTok(s, q, "]") THEN JDone(Append(acc, st.val), q + 1)
                 ELSE JFail

JArray(s, p) ==
    IF ~AtTok(s, p, "[") THEN JFail
    ELSE IF AtTok(s, SkipWs(s, p + 1), "]") THEN JDone(<< >>, SkipWs(s, p + 1) + 1)
    ELSE JItems(s, p + 1, << >>)

\* an object (kind "object", from its opening brace at p), the members of
\* one (kind "members", from p on, acc holding those read so far), or the
\* rest of the members after a value (kind "value", acc holding the members
\* read so far, the key and the value just read); a member's value is an
\* array of strings or an object
RECURSIVE JParse(_, _, _, _)
JParse(kind, s, p, acc) ==
    IF kind = "object" THEN
        IF ~AtTok(s, p, "{") THEN JFail
        ELSE IF AtTok(s, SkipWs(s, p + 1), "}") THEN JDone(<< >>, SkipWs(s, p + 1) + 1)
        ELSE JParse("members", s, p + 1, << >>)
    ELSE IF kind = "members" THEN
        LET key == JString(s, SkipWs(s, p))
            c == SkipWs(s, key.next)
            v == SkipWs(s, c + 1)
        IN  IF ~key.ok THEN JFail
            ELSE IF ~AtTok(s, c, ":") THEN JFail
            ELSE JParse("value", s, v,
                        << acc, key.val,
                           IF AtTok(s, v, "{") THEN JParse("object", s, v, << >>)
                           ELSE JArray(s, v) >>)
    ELSE
        LET val == acc[3]
            q == SkipWs(s, val.next)
            d == DictSet(acc[1], acc[2], val.val)
        IN  IF ~val.ok THEN JFail
            ELSE IF AtTok(s, q, ",") THEN JParse("members", s, q + 1, d)
            ELSE IF AtTok(s, q, "}") THEN JDone(d, q + 1)
            ELSE JFail

JMembers(s, p, acc) == JParse("members", s, p, acc)

JObject(s, p) == JParse("object", s, p, << >>)

JsonLoads(s) ==
    LET o == JObject(s, SkipWs(s, 1))
    IN  IF ~o.ok THEN JFail
        ELSE IF SkipWs(s, o.next) = Len(s) + 1 THEN o
        ELSE JFail

\* the brace-matching loop: the offset just past the brace that closes the
\* one at offset brace_start of section, -1 when none does
RECURSIVE BraceScan(_, _, _)
BraceScan(section, k, brace_count) ==
    IF k >= Len(section) THEN -1
    ELSE LET char == section[k + 1]
             n == IF char = "{" THEN brace_count + 1
                  ELSE IF char = "}" THEN brace_count - 1
                  ELSE brace_count
         IN  IF char = "}" /\ n = 0 THEN k + 1
             ELSE BraceScan(section, k + 1, n)

BraceEnd(section, brace_start) == BraceScan(section, brace_start, 0)

\* ------------------------------------------------------------------------
\* Literals of the basic/assumption flow
\* ------------------------------------------------------------------------

FORMULA_ == << "FORMULA", ":" >>
KEY_TERMS_ == << "KEY_TERMS", ":" >>
SYNONYMS_ == << "SYNONYMS", ":" >>
EXPANDED_TERMS_ == << "EXPANDED_TERMS", ":" >>
CALCULATION_READY_ == << "CALCULATION_READY", ":" >>
RESULT_EXPLANATION_ == << "RESULT_EXPLANATION", ":" >>
NL == << "\n" >>

W_revenue == << "r", "e", "v", "e", "n", "u", "e" >>
W_cost == << "c", "o", "s", "t" >>
W_goods == << "g", "o", "o", "d", "s" >>
W_gross == << "g", "r", "o", "s", "s" >>
W_profit == << "p", "r", "o", "f", "i", "t" >>
W_operating == << "o", "p", "e", "r", "a", "t", "i", "n", "g" >>
W_net == << "n", "e", "t" >>
W_income == << "i", "n", "c", "o", "m", "e" >>
W_ebitda == << "e", "b", "i", "t", "d", "a" >>
W_depreciation == << "d", "e", "p", "r", "e", "c", "i", "a", "t", "i", "o", "n" >>
W_pre_tax == << "p", "r", "e", " ", "t", "a", "x" >>

\* the hardcoded analysis result and the hardcoded formula of the final attempt
HARDCODED_MISSING_INFO == << "p", "r", "e", " ", "t", "a", "x", " ", "i", "n", "c", "o", "m", "e" >>
TEST_FORMULA == << "Gross Profit = 254,453 - 222,358 - pre tax income" >>

\* the words expanded_search_for_missing_info does not search for alone
STOP_WORDS ==
    { << "t", "h", "e" >>, << "a", "n", "d" >>, << "f", "o", "r" >>,
      << "w", "i", "t", "h" >>, << "f", "r", "o", "m" >>, << "t", "h", "a", "t" >>,
      << "t", "h", "i", "s" >>, << "h", "a", "v", "e" >>, << "b", "e", "e", "n" >>,
      << "w", "i", "l", "l" >>, << "w", "e", "r", "e" >>, << "t", "h", "e", "y" >>,
      << "t", "h", "e", "i", "r" >>, << "t", "h", "e", "m" >>, << "t", "h", "e", "n" >>,
      << "t", "h", "a", "n" >> }

\* the snippet window and the reach of its sentence snapping
WINDOW == 300
SNAP == 100

\* ------------------------------------------------------------------------
\* step1_formula_analysis
\* ------------------------------------------------------------------------

\* the built-in synonym table used when the SYNONYMS JSON does not decode
Step1FallbackSynonyms(term) ==
    LET term_lower == Lower(term)
    IN  IF Contains(term_lower, W_revenue) THEN
            << << "t", "o", "t", "a", "l", " ", "r", "e", "v", "e", "n", "u", "e" >>,
              << "n", "e", "t", " ", "s", "a", "l", "e", "s" >>,
              << "s", "a", "l", "e", "s" >>,
              << "r", "e", "v", "e", "n", "u", "e" >>,
              << "i", "n", "c", "o", "m", "e" >> >>
        ELSE IF Contains(term_lower, W_cost) /\ Contains(term_lower, W_goods) THEN
            << << "c", "o", "s", "t", " ", "o", "f", " ", "g", "o", "o", "d", "s", " ", "s", "o", "l", "d" >>,
              << "c", "o", "g", "s" >>,
              << "m", "e", "r", "c", "h", "a", "n", "d", "i", "s", "e", " ", "c", "o", "s", "t", "s" >>,
              << "c", "o", "s", "t", " ", "o", "f", " ", "s", "a", "l", "e", "s" >> >>
        ELSE IF Contains(term_lower, W_gross) /\ Contains(term_lower, W_profit) THEN
            << << "g", "r", "o", "s", "s", " ", "p", "r", "o", "f", "i", "t" >>,
              << "g", "r", "o", "s", "s", " ", "m", "a", "r", "g", "i", "n", " ", "d", "o", "l", "l", "a", "r", "s" >>,
              << "g", "r", "o", "s", "s", " ", "i", "n", "c", "o", "m", "e" >> >>
        ELSE IF Contains(term_lower, W_operating) /\ Contains(term_lower, W_income) THEN
            << << "o", "p", "e", "r", "a", "t", "i", "n", "g", " ", "i", "n", "c", "o", "m", "e" >>,
              << "o", "p", "e", "r", "a", "t", "i", "n", "g", " ", "p", "r", "o", "f", "i", "t" >>,
              << "e", "b", "i", "t" >> >>
        ELSE IF Contains(term_lower, W_net) /\ Contains(term_lower, W_income) THEN
            << << "n", "e", "t", " ", "i", "n", "c", "o", "m", "e" >>,
              << "n", "e", "t", " ", "p", "r", "o", "f", "i", "t" >>,
              << "e", "a", "r", "n", "i", "n", "g", "s" >>,
              << "n", "e", "t", " ", "e", "a", "r", "n", "i", "n", "g", "s" >> >>
        ELSE IF Contains(term_lower, W_ebitda) THEN
            << << "e", "b", "i", "t", "d", "a" >>,
              << "e", "a", "r", "n", "i", "n", "g", "s", " ", "b", "e", "f", "o", "r", "e", " ", "i", "n", "t", "e", "r", "e", "s", "t", " ", "t", "a", "x", "e", "s", " ", "d", "e", "p", "r", "e", "c", "i", "a", "t", "i", "o", "n", " ", "a", "m", "o", "r", "t", "i", "z", "a", "t", "i", "o", "n" >> >>
        ELSE IF Contains(term_lower, W_depreciation) THEN
            << << "d", "e", "p", "r", "e", "c", "i", "a", "t", "i", "o", "n" >>,
              << "d", "e", "p", "r", "e", "c", "i", "a", "t", "i", "o", "n", " ", "a", "n", "d", " ", "a", "m", "o", "r", "t", "i", "z", "a", "t", "i", "o", "n" >>,
              << "d", "&", "a" >> >>
        ELSE
            << term_lower >>

RECURSIVE Step1FallbackTable(_, _)
Step1FallbackTable(key_terms, acc) ==
    IF key_terms = << >> THEN acc
    ELSE Step1FallbackTable(Tail(key_terms),
            DictSet(acc, Head(key_terms), Step1FallbackSynonyms(Head(key_terms))))

\* [term.strip() for term in terms_str.strip('[]').split(',')]
ParseKeyTerms(terms_str) ==
    LET parts == Split(StripChars(terms_str, {"[", "]"}), << "," >>)
    IN  [n \in 1..Len(parts) |-> Strip(parts[n])]

\* the text handed to json.loads for a SYNONYMS line
SynonymsJsonText(line_stripped, formula_response) ==
    LET synonyms_str == Strip(Remove(line_stripped, SYNONYMS_))
    IN  IF StartsWith(synonyms_str, << "{" >>) THEN synonyms_str
        ELSE
            LET synonyms_start == Find(formula_response, SYNONYMS_)
            IN  IF synonyms_start = -1 THEN synonyms_str
                ELSE
                    LET synonyms_section ==
                            Slice(formula_response, synonyms_start, Len(formula_response))
                        brace_start == Find(synonyms_section, << "{" >>)
                    IN  IF brace_start = -1 THEN synonyms_str
                        ELSE
                            LET brace_end == BraceEnd(synonyms_section, brace_start)
                            IN  IF brace_end = -1 THEN synonyms_str
                                ELSE Slice(synonyms_section, brace_start, brace_end)

\* one pass of "for line in lines" over the state (formula, key_terms, synonyms)
Step1Line(st, line, formula_response) ==
    LET line_stripped == Strip(line)
    IN  IF StartsWith(line_stripped, FORMULA_) THEN
            [st EXCEPT !.formula = Strip(Remove(line_stripped, FORMULA_))]
        ELSE IF StartsWith(line_stripped, KEY_TERMS_) THEN
            [st EXCEPT !.key_terms = ParseKeyTerms(Strip(Remove(line_stripped, KEY_TERMS_)))]
        ELSE IF StartsWith(line_stripped, SYNONYMS_) THEN
            LET j == JsonLoads(SynonymsJsonText(line_stripped, formula_response))
            IN  IF j.ok THEN [st EXCEPT !.synonyms = j.val]
                ELSE [st EXCEPT !.synonyms = Step1FallbackTable(st.key_terms, << >>)]
        ELSE st

RECURSIVE Step1Lines(_, _, _)
Step1Lines(st, lines, formula_response) ==
    IF lines = << >> THEN st
    ELSE Step1Lines(Step1Line(st, Head(lines), formula_response), Tail(lines),
                    formula_response)

step1_formula_analysis(formula_response) ==
    Step1Lines([formula |-> << >>, key_terms |-> << >>, synonyms |-> << >>],
               Split(formula_response, NL), formula_response)

\* ------------------------------------------------------------------------
\* The snippet search shared by step2_initial_rag_search and
\* expanded_search_for_missing_info
\* ------------------------------------------------------------------------

Max(a, b) == IF a >= b THEN a ELSE b
Min(a, b) == IF a <= b THEN a ELSE b

\* relevant_text for a term that occurs in the context
RelevantText(context, term) ==
    LET pos == Find(Lower(context), Lower(term))
        start0 == Max(0, pos - WINDOW)
        end0 == Min(Len(context), pos + Len(term) + WINDOW)
        r == RFind(context, ".", start0, pos)
        f == FindFrom(context, ".", pos)
        start == IF r > start0 - SNAP THEN r + 1 ELSE start0
        end == IF f < end0 + SNAP THEN f + 1 ELSE end0
    IN  Strip(Slice(context, start, end))

\* the loop "for term in terms": found[term] = relevant_text when it is not empty
RECURSIVE SearchTerms(_, _, _)
SearchTerms(terms, context, found) ==
    IF terms = << >> THEN found
    ELSE LET term == Head(terms)
             hit == Contains(Lower(context), Lower(term))
             text == IF hit THEN RelevantText(context, term) ELSE << >>
         IN  SearchTerms(Tail(terms), context,
                         IF hit /\ text # << >> THEN DictSet(found, term, text) ELSE found)

\* ------------------------------------------------------------------------
\* step2_initial_rag_search
\* ------------------------------------------------------------------------

\* every synonym of every key term, a key term without synonyms standing for itself
RECURSIVE AllSearchTerms(_, _)
AllSearchTerms(key_terms, synonyms) ==
    IF key_terms = << >> THEN << >>
    ELSE LET term == Head(key_terms)
         IN  (IF DictHas(synonyms, term) THEN DictGet(synonyms, term) ELSE << term >>)
                \o AllSearchTerms(Tail(key_terms), synonyms)

COLON_SPACE == << ":", " " >>
BLANK_LINE == << "\n", "\n" >>

step2_initial_rag_search(key_terms, synonyms, context) ==
    LET extracted_info == SearchTerms(AllSearchTerms(key_terms, synonyms), context, << >>)
    IN  Join([n \in 1..Len(extracted_info) |->
                 extracted_info[n].k \o COLON_SPACE \o extracted_info[n].v], BLANK_LINE)

\* ------------------------------------------------------------------------
\* step3_attempt_answer: the parse of the reply
\* ------------------------------------------------------------------------

\* text.split(marker)[1].strip().split('\n')[0].strip()
FirstLineAfter(text, marker) ==
    Strip(Split(Strip(Split(text, marker)[2]), NL)[1])

step3_attempt_answer(attempt_result) ==
    IF Contains(attempt_result, CALCULATION_READY_) THEN
        [attempt_result |-> FirstLineAfter(attempt_result, CALCULATION_READY_),
         result_explanation |->
            IF Contains(attempt_result, RESULT_EXPLANATION_)
            THEN FirstLineAfter(attempt_result, RESULT_EXPLANATION_)
            ELSE << >>]
    ELSE
        [attempt_result |-> attempt_result, result_explanation |-> << >>]

\* ------------------------------------------------------------------------
\* expanded_search_for_missing_info
\* ------------------------------------------------------------------------

\* the fallback synonyms of one missing term
ExpandedFallbackSynonyms(term) ==
    LET term_lower == Lower(term)
    IN  IF Contains(term_lower, W_revenue) THEN
            << << "r", "e", "v", "e", "n", "u", "e" >>,
              << "s", "a", "l", "e", "s" >>,
              << "n", "e", "t", " ", "s", "a", "l", "e", "s" >>,
              << "g", "r", "o", "s", "s", " ", "s", "a", "l", "e", "s" >>,
              << "t", "o", "t", "a", "l", " ", "s", "a", "l", "e", "s" >>,
              << "i", "n", "c", "o", "m", "e" >> >>
        ELSE IF Contains(term_lower, W_cost) /\ Contains(term_lower, W_goods) THEN
            << << "c", "o", "s", "t", " ", "o", "f", " ", "g", "o", "o", "d", "s", " ", "s", "o", "l", "d" >>,
              << "c", "o", "g", "s" >>,
              << "c", "o", "s", "t", " ", "o", "f", " ", "s", "a", "l", "e", "s" >>,
              << "d", "i", "r", "e", "c", "t", " ", "c", "o", "s", "t", "s" >>,
              << "i", "n", "v", "e", "n", "t", "o", "r", "y", " ", "c", "o", "s", "t", "s" >> >>
        ELSE IF Contains(term_lower, W_operating) /\ Contains(term_lower, W_income) THEN
            << << "o", "p", "e", "r", "a", "t", "i", "n", "g", " ", "i", "n", "c", "o", "m", "e" >>,
              << "o", "p", "e", "r", "a", "t", "i", "n", "g", " ", "p", "r", "o", "f", "i", "t" >>,
              << "e", "b", "i", "t" >>,
              << "o", "p", "e", "r", "a", "t", "i", "n", "g", " ", "e", "a", "r", "n", "i", "n", "g", "s" >> >>
        ELSE IF Contains(term_lower, W_pre_tax) /\ Contains(term_lower, W_income) THEN
            << << "p", "r", "e", " ", "t", "a", "x", " ", "i", "n", "c", "o", "m", "e" >>,
              << "p", "r", "e", "t", "a", "x", " ", "i", "n", "c", "o", "m", "e" >>,
              << "e", "a", "r", "n", "i", "n", "g", "s", " ", "b", "e", "f", "o", "r", "e", " ", "t", "a", "x", "e", "s" >>,
              << "e", "b", "t" >>,
              << "i", "n", "c", "o", "m", "e", " ", "b", "e", "f", "o", "r", "e", " ", "t", "a", "x", "e", "s" >>,
              << "p", "r", "e", "-", "t", "a", "x", " ", "e", "a", "r", "n", "i", "n", "g", "s" >>,
              << "o", "p", "e", "r", "a", "t", "i", "n", "g", " ", "i", "n", "c", "o", "m", "e" >>,
              << "o", "p", "e", "r", "a", "t", "i", "n", "g", " ", "p", "r", "o", "f", "i", "t" >>,
              << "i", "n", "c", "o", "m", "e", " ", "b", "e", "f", "o", "r", "e", " ", "i", "n", "c", "o", "m", "e", " ", "t", "a", "x", "e", "s" >>,
              << "i", "n", "c", "o", "m", "e", " ", "b", "e", "f", "o", "r", "e", " ", "t", "a", "x", "e", "s" >>,
              << "p", "r", "e", "t", "a", "x", " ", "e", "a", "r", "n", "i", "n", "g", "s" >> >>
        ELSE IF Contains(term_lower, W_income) THEN
            << << "i", "n", "c", "o", "m", "e" >>,
              << "e", "a", "r", "n", "i", "n", "g", "s" >>,
              << "p", "r", "o", "f", "i", "t" >>,
              << "n", "e", "t", " ", "i", "n", "c", "o", "m", "e" >>,
              << "n", "e", "t", " ", "e", "a", "r", "n", "i", "n", "g", "s" >>,
              << "o", "p", "e", "r", "a", "t", "i", "n", "g", " ", "i", "n", "c", "o", "m", "e" >>,
              << "o", "p", "e", "r", "a", "t", "i", "n", "g", " ", "p", "r", "o", "f", "i", "t" >> >>
        ELSE
            << term_lower >>

RECURSIVE ExpandedFallbackTable(_, _)
ExpandedFallbackTable(missing_terms_list, acc) ==
    IF missing_terms_list = << >> THEN acc
    ELSE ExpandedFallbackTable(Tail(missing_terms_list),
            DictSet(acc, Head(missing_terms_list),
                    ExpandedFallbackSynonyms(Head(missing_terms_list))))

\* the try block that parses the reply, with its except branch
ParseExpandedTerms(expanded_terms_response, missing_info) ==
    IF ~Contains(expanded_terms_response, EXPANDED_TERMS_) THEN << >>
    ELSE
        LET terms_section == Strip(Split(expanded_terms_response, EXPANDED_TERMS_)[2])
            brace_start == Find(terms_section, << "{" >>)
        IN  IF brace_start = -1 THEN << >>
            ELSE
                LET brace_end == BraceEnd(terms_section, brace_start)
                IN  IF brace_end = -1 THEN << >>
                    ELSE
                        LET j == JsonLoads(Slice(terms_section, brace_start, brace_end))
                            parts == Split(missing_info, << "," >>)
                        IN  IF j.ok THEN j.val
                            ELSE ExpandedFallbackTable(
                                    [n \in 1..Len(parts) |-> Strip(parts[n])], << >>)

\* all_search_terms: the synonyms of every expanded term, in order
RECURSIVE DictValuesConcat(_)
DictValuesConcat(d) ==
    IF d = << >> THEN << >> ELSE Head(d).v \o DictValuesConcat(Tail(d))

\* the n-grams of n consecutive words that are longer than min_len
NGrams(words, n, min_len) ==
    LET grams == [k \in 1..Max(0, Len(words) - (n - 1)) |->
                    Join(SubSeq(words, k, k + n - 1), << " " >>)]
    IN  SelectSeq(grams, LAMBDA g : Len(g) > min_len)

\* a term, then its words, its bigrams and its trigrams
SubComponents(term) ==
    LET words == Words(Lower(term))
    IN  << term >>
        \o SelectSeq(words, LAMBDA w : Len(w) > 2 /\ w \notin STOP_WORDS)
        \o NGrams(words, 2, 4)
        \o NGrams(words, 3, 6)

RECURSIVE SubComponentTerms(_)
SubComponentTerms(all_search_terms) ==
    IF all_search_terms = << >> THEN << >>
    ELSE SubComponents(Head(all_search_terms)) \o SubComponentTerms(Tail(all_search_terms))

\* duplicates (ignoring case) removed, the first of each kept
RECURSIVE UniqueTerms(_, _, _)
UniqueTerms(terms, unique, seen) ==
    IF terms = << >> THEN unique
    ELSE IF Lower(Head(terms)) \in seen THEN UniqueTerms(Tail(terms), unique, seen)
    ELSE UniqueTerms(Tail(terms), Append(unique, Head(terms)),
                     seen \cup {Lower(Head(terms))})

\* every generated candidate, duplicates kept
sub_component_terms(expanded_terms) == SubComponentTerms(DictValuesConcat(expanded_terms))

\* the candidates with their duplicates left in
unique_search_terms_keeps_duplicates(expanded_terms) ==
    SubComponentTerms(DictValuesConcat(expanded_terms))

\* the candidates the function searches for
unique_search_terms(expanded_terms) ==
    UniqueTerms(SubComponentTerms(DictValuesConcat(expanded_terms)), << >>, {})

\* the function's found_info dictionary: one entry per search term with a
\* non-empty snippet
expanded_found_info(missing_info, context, expanded_terms_response) ==
    LET expanded_terms == ParseExpandedTerms(expanded_terms_response, missing_info)
    IN  SearchTerms(unique_search_terms(expanded_terms), context, << >>)

\* found_info of the result
expanded_search_for_missing_info(missing_info, context, expanded_terms_response) ==
    LET found_info == expanded_found_info(missing_info, context, expanded_terms_response)
    IN  Join([n \in 1..Len(found_info) |-> found_info[n].v], BLANK_LINE)

\* ------------------------------------------------------------------------
\* The basic/assumption flow: inputs
\* ------------------------------------------------------------------------

\* "Rev 5. Tax 9."
CONTEXT_BOTH ==
    << "R", "e", "v", " ", "5", ".", " ", "T", "a", "x", " ", "9", "." >>

\* "Rev 5. Cost 3": no tax figure, and no full stop after the last figure
CONTEXT_NO_TAX ==
    << "R", "e", "v", " ", "5", ".", " ", "C", "o", "s", "t", " ", "3" >>

\* "Income tax 9"
CONTEXT_NO_STOP ==
    << "I", "n", "c", "o", "m", "e", " ", "t", "a", "x", " ", "9" >>

Contexts == { CONTEXT_BOTH, CONTEXT_NO_TAX, CONTEXT_NO_STOP }

\* FORMULA: GP / KEY_TERMS: [rev, tax] / SYNONYMS: {"rev": ["sales", "Rev"]}
STEP1_FULL ==
    << "FORMULA", ":", " ", "G", "P", "\n", "KEY_TERMS", ":", " ", "[", "r", "e", "v",
       ",", " ", "t", "a", "x", "]", "\n", "SYNONYMS", ":", " ", "{", "\"", "r", "e",
       "v", "\"", ":", " ", "[", "\"", "s", "a", "l", "e", "s", "\"", ",", " ", "\"",
       "R", "e", "v", "\"", "]", "}" >>

\* FORMULA: NI / KEY_TERMS: [Revenue, tax] / SYNONYMS: none
STEP1_BAD_JSON ==
    << "FORMULA", ":", " ", "N", "I", "\n", "KEY_TERMS", ":", " ", "[", "R", "e", "v",
       "e", "n", "u", "e", ",", " ", "t", "a", "x", "]", "\n", "SYNONYMS", ":", " ",
       "n", "o", "n", "e" >>

\* a reply without any marker
STEP1_NO_MARKER ==
    << "n", "o", " ", "i", "d", "e", "a" >>

\* FORMULA: <the formula the final attempt hardcodes> / KEY_TERMS: [tax]
STEP1_TEST_FORMULA ==
    << "FORMULA", ":", " ", "Gross Profit = 254,453 - 222,358 - pre tax income", "\n",
       "KEY_TERMS", ":", " ", "[", "t", "a", "x", "]" >>

Step1Replies == { STEP1_FULL, STEP1_BAD_JSON, STEP1_NO_MARKER, STEP1_TEST_FORMULA }

\* CALCULATION_READY: GP = 5 - 9 / RESULT_EXPLANATION: all found
ATTEMPT_READY ==
    << "CALCULATION_READY", ":", " ", "G", "P", " ", "=", " ", "5", " ", "-", " ", "9",
       "\n", "RESULT_EXPLANATION", ":", " ", "a", "l", "l", " ", "f", "o", "u", "n",
       "d" >>

\* MISSING_INFO: tax
ATTEMPT_MISSING ==
    << "MISSING_INFO", ":", " ", "t", "a", "x" >>

AttemptReplies == { ATTEMPT_READY, ATTEMPT_MISSING }

\* EXPANDED_TERMS: {"pre tax income": ["TAX", "ebt"]} and a closing remark
EXPANDED_JSON ==
    << "EXPANDED_TERMS", ":", " ", "{", "\"", "p", "r", "e", " ", "t", "a", "x", " ",
       "i", "n", "c", "o", "m", "e", "\"", ":", " ", "[", "\"", "T", "A", "X", "\"",
       ",", " ", "\"", "e", "b", "t", "\"", "]", "}", "\n", "D", "o", "n", "e", "." >>

\* EXPANDED_TERMS: {"pre tax income": oops}
EXPANDED_BAD_JSON ==
    << "EXPANDED_TERMS", ":", " ", "{", "\"", "p", "r", "e", " ", "t", "a", "x", " ",
       "i", "n", "c", "o", "m", "e", "\"", ":", " ", "o", "o", "p", "s", "}" >>

\* a reply without the marker
EXPANDED_NO_MARKER ==
    << "n", "o", "n", "e" >>

ExpandedReplies == { EXPANDED_JSON, EXPANDED_BAD_JSON, EXPANDED_NO_MARKER }

\* what llm.invoke does: it returns one of the replies, or it raises
LLMRaises == [raised |-> TRUE, text |-> << >>]

LLMOutcomes(replies) == { LLMRaises } \cup { [raised |-> FALSE, text |-> r] : r \in replies }

\* ------------------------------------------------------------------------
\* tools/calculator.py.  A float is kept as an integer number of
\* thousandths (2.5 is 2500): exact for the inputs of this model, which have
\* at most three decimals and divide evenly where the code divides.
\* ------------------------------------------------------------------------

SCALE == 1000

DIGITS == << "0", "1", "2", "3", "4", "5", "6", "7", "8", "9" >>

DigitVal(c) == (CHOOSE d \in 1..10 : DIGITS[d] = c) - 1

\* int(digits), 0 for no digits
RECURSIVE IntOf(_)
IntOf(digits) ==
    IF digits = << >> THEN 0
    ELSE 10 * IntOf(SubSeq(digits, 1, Len(digits) - 1)) + DigitVal(digits[Len(digits)])

\* the offset after the longest run of units of the set chars that starts at offset p
RECURSIVE RunEnd(_, _, _)
RunEnd(s, p, chars) ==
    IF p < Len(s) /\ s[p + 1] \in chars THEN RunEnd(s, p + 1, chars) ELSE p

DigitChars == { DIGITS[d] : d \in 1..10 }

NumChars == DigitChars \cup { "," }

BlankChars == { " ", "\n" }

\* the group ([0-9,]+\.?[0-9]*) matched at offset p: its end offset, -1 for no match
NumberEnd(s, p) ==
    LET a == RunEnd(s, p, NumChars)
        b == IF a < Len(s) /\ s[a + 1] = "." THEN a + 1 ELSE a
    IN  IF a = p THEN -1 ELSE RunEnd(s, b, DigitChars)

\* float(value_str) in thousandths; raised for a string without a digit
FloatOf(value_str) ==
    LET dot == Find(value_str, << "." >>)
        whole == IF dot = -1 THEN value_str ELSE Slice(value_str, 0, dot)
        frac == IF dot = -1 THEN << >> ELSE Slice(value_str, dot + 1, Len(value_str))
        frac3 == SubSeq(frac \o << "0", "0", "0" >>, 1, 3)
    IN  IF whole = << >> /\ frac = << >>
        THEN [raised |-> TRUE, value |-> 0]
        ELSE [raised |-> FALSE, value |-> IntOf(whole) * SCALE + IntOf(frac3)]

\* a match of  prefix \s* \$? ([0-9,]+\.?[0-9]*)  at offset p: the group's
\* span, or none
TermMatchAt(s, prefix, p) ==
    IF ~OccursAt(s, prefix, p) THEN [ok |-> FALSE, from |-> 0, to |-> 0]
    ELSE LET a == RunEnd(s, p + Len(prefix), BlankChars)
             b == IF a < Len(s) /\ s[a + 1] = "$" THEN a + 1 ELSE a
             e == NumberEnd(s, b)
         IN  IF e = -1 THEN [ok |-> FALSE, from |-> 0, to |-> 0]
             ELSE [ok |-> TRUE, from |-> b, to |-> e]

\* a match of  \$? ([0-9,]+\.?[0-9]*) \s* (?:unit|letter)  at offset p; no
\* alternatives stands for the plain-number pattern
GeneralMatchAt(s, alternatives, p) ==
    LET b == IF p < Len(s) /\ s[p + 1] = "$" THEN p + 1 ELSE p
        e == NumberEnd(s, b)
    IN  IF e = -1 THEN [ok |-> FALSE, from |-> 0, to |-> 0]
        ELSE LET a == RunEnd(s, e, BlankChars)
             IN  IF alternatives = {} \/ \E alt \in alternatives : OccursAt(s, alt, a)
                 THEN [ok |-> TRUE, from |-> b, to |-> e]
                 ELSE [ok |-> FALSE, from |-> 0, to |-> 0]

\* re.search of a term pattern: the match at the least offset, ok = FALSE
\* when there is none
TermSearch(s, prefix) ==
    LET hits == { p \in 0..Len(s) : TermMatchAt(s, prefix, p).ok }
    IN  IF hits = {} THEN [ok |-> FALSE, from |-> 0, to |-> 0]
        ELSE TermMatchAt(s, prefix, CHOOSE p \in hits : \A q \in hits : p <= q)

\* re.search of a general pattern
GeneralSearch(s, alternatives) ==
    LET hits == { p \in 0..Len(s) : GeneralMatchAt(s, alternatives, p).ok }
    IN  IF hits = {} THEN [ok |-> FALSE, from |-> 0, to |-> 0]
        ELSE GeneralMatchAt(s, alternatives, CHOOSE p \in hits : \A q \in hits : p <= q)

W_billion == << "b", "i", "l", "l", "i", "o", "n" >>
W_million == << "m", "i", "l", "l", "i", "o", "n" >>
W_thousand == << "t", "h", "o", "u", "s", "a", "n", "d" >>

\* the value of a match with no unit conversion at all
MatchValue_unconverted(text_lower, match) ==
    FloatOf(Remove(Slice(text_lower, match.from, match.to), << "," >>))

\* the value of a match: group(1) without commas as a float, times 1000 when
\* the whole text mentions billion or B, else divided by 1000 when it
\* mentions thousand or K
MatchValue(text_lower, match) ==
    LET f == FloatOf(Remove(Slice(text_lower, match.from, match.to), << "," >>))
    IN  IF f.raised THEN f
        ELSE IF Contains(text_lower, W_billion) \/ Contains(text_lower, << "B" >>)
             THEN [raised |-> FALSE, value |-> f.value * 1000]
        ELSE IF Contains(text_lower, W_thousand) \/ Contains(text_lower, << "K" >>)
             THEN [raised |-> FALSE, value |-> f.value \div 1000]
        ELSE f

\* term_patterns: the terms in dictionary order, each with the literal
\* prefixes of its patterns in list order
term_patterns ==
    << [term |-> "revenue",
        prefixes |-> << << "t", "o", "t", "a", "l", " ", "r", "e", "v", "e", "n", "u", "e" >>,
                        << "n", "e", "t", " ", "s", "a", "l", "e", "s" >>,
                        << "r", "e", "v", "e", "n", "u", "e" >> >>],
       [term |-> "cost of goods sold",
        prefixes |-> << << "m", "e", "r", "c", "h", "a", "n", "d", "i", "s", "e", " ", "c", "o", "s", "t", "s" >>,
                        << "c", "o", "s", "t", " ", "o", "f", " ", "g", "o", "o", "d", "s", " ", "s", "o", "l", "d" >>,
                        << "c", "o", "g", "s" >> >>],
       [term |-> "operating income",
        prefixes |-> << << "o", "p", "e", "r", "a", "t", "i", "n", "g", " ", "i", "n", "c", "o", "m", "e" >>,
                        << "e", "b", "i", "t" >> >>],
       [term |-> "gross profit",
        prefixes |-> << << "g", "r", "o", "s", "s", " ", "p", "r", "o", "f", "i", "t" >>,
                        << "g", "r", "o", "s", "s", " ", "m", "a", "r", "g", "i", "n" >> >>] >>

\* the unit alternatives of the general patterns, in list order
patterns ==
    << { W_billion, << "B" >> }, { W_million, << "M" >> }, { W_thousand, << "K" >> }, {} >>

ValueError == [raised |-> TRUE, values |-> << >>]

\* the last prefix of the list with a match, in the place of the first
FirstMatching_last(text_lower, prefixes) ==
    LET hits == { n \in 1..Len(prefixes) : TermSearch(text_lower, prefixes[n]).ok }
    IN  IF hits = {} THEN 0 ELSE CHOOSE n \in hits : \A k \in hits : n >= k

\* the first prefix of the list with a match: its index, 0 for none
FirstMatching(text_lower, prefixes) ==
    LET hits == { n \in 1..Len(prefixes) : TermSearch(text_lower, prefixes[n]).ok }
    IN  IF hits = {} THEN 0 ELSE CHOOSE n \in hits : \A k \in hits : n <= k

\* the loop over term_patterns from entry n on
RECURSIVE ExtractTerms(_, _, _)
ExtractTerms(text_lower, n, numerical_values) ==
    IF n > Len(term_patterns) THEN [raised |-> FALSE, values |-> numerical_values]
    ELSE LET e == term_patterns[n]
             k == FirstMatching(text_lower, e.prefixes)
         IN  IF k = 0 THEN ExtractTerms(text_lower, n + 1, numerical_values)
             ELSE LET v == MatchValue(text_lower, TermSearch(text_lower, e.prefixes[k]))
                  IN  IF v.raised THEN ValueError
                      ELSE ExtractTerms(text_lower, n + 1,
                                        DictSet(numerical_values, e.term, v.value))

\* the general patterns, tried when no term was found
ExtractGeneral(text_lower) ==
    LET MatchOf(n) == GeneralSearch(text_lower, patterns[n])
        hits == { n \in 1..Len(patterns) : MatchOf(n).ok }
    IN  IF hits = {} THEN [raised |-> FALSE, values |-> << >>]
        ELSE LET first == CHOOSE n \in hits : \A k \in hits : n <= k
                 v == MatchValue(text_lower, MatchOf(first))
             IN  IF v.raised THEN ValueError
                 ELSE [raised |-> FALSE, values |-> << [k |-> "general", v |-> v.value] >>]

\* the dictionary returned, or the ValueError of float() that leaves the function
extract_numerical_values(extracted_info) ==
    IF extracted_info = << >> THEN [raised |-> FALSE, values |-> << >>]
    ELSE LET text_lower == Lower(extracted_info)
             specific == ExtractTerms(text_lower, 1, << >>)
         IN  IF specific.raised THEN ValueError
             ELSE IF specific.values = << >> THEN ExtractGeneral(text_lower)
             ELSE specific

\* numerical_values.get(key, default)
Get(numerical_values, key, default) ==
    IF DictHas(numerical_values, key) THEN DictGet(numerical_values, key) ELSE default

\* what perform_financial_calculation returns, with the branch that ran
None(rule) == [none |-> TRUE, value |-> 0, rule |-> rule, raised |-> FALSE]

Number(rule, v) == [none |-> FALSE, value |-> v, rule |-> rule, raised |-> FALSE]

\* a division by zero inside the try block: nothing returned yet
ZeroDivisionError(rule) == [none |-> TRUE, value |-> 0, rule |-> rule, raised |-> TRUE]

W_cogs == << "c", "o", "g", "s" >>
W_ebit == << "e", "b", "i", "t" >>
W_margin == << "m", "a", "r", "g", "i", "n" >>
W_operating_income == << "o", "p", "e", "r", "a", "t", "i", "n", "g", " ", "i", "n", "c", "o", "m", "e" >>
W_operating_margin == << "o", "p", "e", "r", "a", "t", "i", "n", "g", " ", "m", "a", "r", "g", "i", "n" >>
W_gross_margin == << "g", "r", "o", "s", "s", " ", "m", "a", "r", "g", "i", "n" >>

\* (a / b) * 100, cut to thousandths
Percent(rule, a, b) ==
    IF b = 0 THEN ZeroDivisionError(rule)
    ELSE Number(rule, ((a * 100) \div b) * SCALE + (((a * 100) % b) * SCALE) \div b)

\* the try block: a number, None, or an exception.  Python reads the first
\* test as ("revenue" and "cogs") or "cost"; a margin formula of neither kind
\* falls off the end of the function, which returns None.
calculation(formula, numerical_values) ==
    LET formula_lower == Lower(formula)
        has(w) == Contains(formula_lower, w)
    IN  IF (has(W_revenue) /\ has(W_cogs)) \/ has(W_cost) THEN
            Number("gross profit",
                   Get(numerical_values, "revenue", 0)
                   - Get(numerical_values, "cost of goods sold",
                         Get(numerical_values, "cogs", 0)))
        ELSE IF has(W_operating_income) \/ has(W_ebit) THEN
            Number("operating income", Get(numerical_values, "operating income", 0))
        ELSE IF has(W_ebitda) THEN
            Number("ebitda",
                   Get(numerical_values, "operating income", 0)
                   + Get(numerical_values, "depreciation", 0))
        ELSE IF has(W_margin) THEN
            IF has(W_operating_margin) THEN
                Percent("operating margin",
                        Get(numerical_values, "operating income", 0),
                        Get(numerical_values, "revenue", SCALE))
            ELSE IF has(W_gross_margin) THEN
                Percent("gross margin",
                        Get(numerical_values, "gross profit", 0),
                        Get(numerical_values, "revenue", SCALE))
            ELSE None("margin")
        ELSE None("generic")

\* the exception leaves the function, in the place of the except clause
Uncaught(result) == result

\* except Exception: the error is printed and None returned
Caught(result) == IF result.raised THEN None(result.rule) ELSE result

perform_financial_calculation(formula, numerical_values) ==
    Caught(calculation(formula, numerical_values))

\* ------------------------------------------------------------------------
\* tools/calculator.py: inputs
\* ------------------------------------------------------------------------

\* the most labelled amounts one text states
MaxAmounts == 2

\* str(n) for n >= 0
RECURSIVE Digits(_)
Digits(n) == IF n < 10 THEN << DIGITS[n + 1] >> ELSE Digits(n \div 10) \o << DIGITS[(n % 10) + 1] >>

\* the labels, in the order a text states them
Labels ==
    << [term |-> "revenue", text |-> << "r", "e", "v", "e", "n", "u", "e" >>],
       [term |-> "cost of goods sold", text |-> << "c", "o", "s", "t", " ", "o", "f", " ", "g", "o", "o", "d", "s", " ", "s", "o", "l", "d" >>],
       [term |-> "operating income", text |-> << "o", "p", "e", "r", "a", "t", "i", "n", "g", " ", "i", "n", "c", "o", "m", "e" >>],
       [term |-> "gross profit", text |-> << "g", "r", "o", "s", "s", " ", "p", "r", "o", "f", "i", "t" >>] >>

Units == { W_billion, W_million, W_thousand }

\* one labelled amount: "<label> <number> <unit>"
Amounts == [label : 1..Len(Labels), number : {2, 180}, unit : Units]

AmountText(a) == Labels[a.label].text \o << " " >> \o Digits(a.number) \o << " " >> \o a.unit

\* up to MaxAmounts labelled amounts, each label at most once
AmountLists ==
    { l \in UNION { [1..n -> Amounts] : n \in 0..MaxAmounts } :
        \A j \in 1..Len(l), k \in 1..Len(l) : j < k => l[j].label < l[k].label }

\* the text stating the amounts of the list
AmountsText(l) == Join([n \in 1..Len(l) |-> AmountText(l[n])], << ";", " " >>)

\* a number group made of a comma alone, then a well-formed amount
COMMA_THEN_COGS == << "r", "e", "v", "e", "n", "u", "e", " ", ",", ";", " ", "c", "o", "g", "s", " ", "7" >>

\* two alternatives of one label, the later alternative first in the text
REVENUE_THEN_NET_SALES == << "r", "e", "v", "e", "n", "u", "e", " ", "3", ";", " ", "n", "e", "t", " ", "s", "a", "l", "e", "s", " ", "4" >>

REVENUE_BILLION == << "r", "e", "v", "e", "n", "u", "e", " ", "$", "2", ".", "5", " ", "b", "i", "l", "l", "i", "o", "n" >>

REVENUE_THOUSAND == << "r", "e", "v", "e", "n", "u", "e", " ", "$", "5", "0", "0", " ", "t", "h", "o", "u", "s", "a", "n", "d" >>

REVENUE_MILLION == << "r", "e", "v", "e", "n", "u", "e", " ", "$", "1", "8", "0", " ", "m", "i", "l", "l", "i", "o", "n" >>

\* texts without a labelled amount, or with a plain one, and one labelled
\* amount in each unit written with a dollar sign
OtherTexts ==
    { << >>,
      REVENUE_BILLION, REVENUE_THOUSAND, REVENUE_MILLION,
      COMMA_THEN_COGS,
      REVENUE_THEN_NET_SALES,
      << "5", " ", "m", "i", "l", "l", "i", "o", "n" >>,
      << "$", "2", ".", "5", "B" >>,
      << "n", "e", "t", " ", "s", "a", "l", "e", "s", " ", "$", "1", ",", "0", "0", "0", ".", "5" >>,
      << "E", "B", "I", "T", " ", "7" >>,
      << "r", "e", "v", "e", "n", "u", "e", " ", "," >>,
      << "n", "o", " ", "f", "i", "g", "u", "r", "e", "s" >> }

GROSS_PROFIT_FORMULA ==
    << "G", "r", "o", "s", "s", " ", "P", "r", "o", "f", "i", "t", " ", "=", " ", "R", "e", "v", "e", "n", "u", "e", " ", "-", " ", "C", "O", "G", "S" >>

TOTAL_COST_FORMULA == << "T", "o", "t", "a", "l", " ", "C", "o", "s", "t" >>

EBITDA_FORMULA == << "E", "B", "I", "T", "D", "A" >>

\* formulas of every recognised shape, of none, and with "cost" alone
OPERATING_MARGIN_FORMULA == << "O", "p", "e", "r", "a", "t", "i", "n", "g", " ", "M", "a", "r", "g", "i", "n" >>

GROSS_MARGIN_FORMULA == << "G", "r", "o", "s", "s", " ", "M", "a", "r", "g", "i", "n" >>

Formulas ==
    { GROSS_PROFIT_FORMULA,
      << "R", "e", "v", "e", "n", "u", "e", " ", "-", " ", "C", "o", "s", "t" >>,
      TOTAL_COST_FORMULA,
      EBITDA_FORMULA,
      << "E", "B", "I", "T" >>,
      << "O", "p", "e", "r", "a", "t", "i", "n", "g", " ", "I", "n", "c", "o", "m", "e" >>,
      OPERATING_MARGIN_FORMULA,
      GROSS_MARGIN_FORMULA,
      << "N", "e", "t", " ", "M", "a", "r", "g", "i", "n" >>,
      << "S", "o", "m", "e", " ", "u", "n", "r", "e", "l", "a", "t", "e", "d", " ", "f", "o", "r", "m", "u", "l", "a" >> }

\* facts without revenue, and facts whose revenue is 0
NO_REVENUE ==
    << [k |-> "operating income", v |-> 10 * SCALE],
       [k |-> "depreciation", v |-> 5 * SCALE] >>

ZERO_REVENUE ==
    << [k |-> "revenue", v |-> 0],
       [k |-> "operating income", v |-> 10 * SCALE],
       [k |-> "gross profit", v |-> 4 * SCALE] >>

\* fact mappings, the values in thousandths
Facts ==
    { << >>,
      << [k |-> "revenue", v |-> 254453 * SCALE],
         [k |-> "cost of goods sold", v |-> 222358 * SCALE] >>,
      NO_REVENUE,
      ZERO_REVENUE,
      << [k |-> "revenue", v |-> 200 * SCALE],
         [k |-> "cogs", v |-> 7 * SCALE],
         [k |-> "operating income", v |-> 20 * SCALE],
         [k |-> "gross profit", v |-> 50 * SCALE] >> }

\* a call of one of the two functions; amounts: what the text was written from
Call(fn, text, amounts, formula, numerical_values) ==
    [fn |-> fn, text |-> text, amounts |-> amounts, formula |-> formula,
     numerical_values |-> numerical_values]

NoCall == Call("", << >>, << >>, << >>, << >>)

ExtractCalls ==
    { Call("extract_numerical_values", AmountsText(l), l, << >>, << >>) : l \in AmountLists }
    \cup { Call("extract_numerical_values", t, << >>, << >>, << >>) : t \in OtherTexts }

PerformCalls ==
    { Call("perform_financial_calculation", << >>, << >>, f, v) : f \in Formulas, v \in Facts }

\* ------------------------------------------------------------------------
\* The bracketed JSON of a reply: inputs
\* ------------------------------------------------------------------------

\* JSON objects as a reply writes them, compactly
JsonTexts ==
    << << "{", "\"", "a", "\"", ":", " ", "[", "\"", "b", "\"", "]", "}" >>,
       << "{", "\"", "a", "\"", ":", " ", "[", "\"", "b", "\"", "]", ",", " ", "\"", "c", "\"", ":", " ", "[", "]", "}" >>,
       << "{", "\"", "a", "\"", ":", " ", "{", "\"", "b", "\"", ":", " ", "[", "\"", "c", "\"", "]", "}", "}" >>,
       << "{", "\"", "a", "\"", ":", " ", "[", "\"", "}", "\"", "]", "}" >> >>

\* what json.loads makes of each of them
JsonValues ==
    << << [k |-> << "a" >>, v |-> << << "b" >> >>] >>,
       << [k |-> << "a" >>, v |-> << << "b" >> >>], [k |-> << "c" >>, v |-> << >>] >>,
       << [k |-> << "a" >>, v |-> << [k |-> << "b" >>, v |-> << << "c" >> >>] >>] >>,
       << [k |-> << "a" >>, v |-> << << "}" >> >>] >> >>

\* the object spread over lines: a line break after its first brace and
\* before its last
Pretty(json) == << "{", "\n" >> \o SubSeq(json, 2, Len(json) - 1) \o << "\n", "}" >>

Layouts == { "same line", "next line", "pretty" }

\* the marker and the object after it
Marked(marker, json, layout) ==
    IF layout = "same line" THEN marker \o << " " >> \o json
    ELSE IF layout = "next line" THEN marker \o NL \o json
    ELSE marker \o << " " >> \o Pretty(json)

Trailings == { "none", "same line", "later line", "later braces" }

\* the prose after the object
TrailingText(trailing) ==
    IF trailing = "same line" THEN << " ", "a", "s", " ", "a", "s", "k", "e", "d" >>
    ELSE IF trailing = "later line" THEN << "\n", "D", "o", "n", "e", "." >>
    ELSE IF trailing = "later braces" THEN << "\n", "U", "s", "e", " ", "{", "x", "}", "." >>
    ELSE << >>

\* FORMULA: GP / KEY_TERMS: [a]
STEP1_HEAD ==
    << "FORMULA", ":", " ", "G", "P", "\n", "KEY_TERMS", ":", " ", "[", "a", "]", "\n" >>

\* a call of step1_formula_analysis or of expanded_search_for_missing_info
\* with an llm whose reply holds object number object
ParseCall(fn, object, layout, trailing) ==
    [fn |-> fn, object |-> object, layout |-> layout, trailing |-> trailing,
     damage |-> "none",
     reply |-> (IF fn = "step1_formula_analysis" THEN STEP1_HEAD ELSE << >>)
               \o Marked(IF fn = "step1_formula_analysis" THEN SYNONYMS_ ELSE EXPANDED_TERMS_,
                         JsonTexts[object], layout)
               \o TrailingText(trailing)]

\* what stands after the marker in the place of a JSON object: braces around
\* what is no JSON, no brace at all, an object whose last brace is missing
Damages == { "not json", "no brace", "no closing brace" }

DamagedText(damage) ==
    IF damage = "not json" THEN << "{", "a", ":", " ", "b", "}" >>
    ELSE IF damage = "no brace" THEN << "a", ",", " ", "b" >>
    ELSE << "{", "\"", "a", "\"", ":", " ", "[", "\"", "b", "\"", "]" >>

\* a call whose reply holds a damaged object
DamagedCall(fn, damage, layout) ==
    [fn |-> fn, object |-> 0, layout |-> layout, trailing |-> "none",
     damage |-> damage,
     reply |-> (IF fn = "step1_formula_analysis" THEN STEP1_HEAD ELSE << >>)
               \o Marked(IF fn = "step1_formula_analysis" THEN SYNONYMS_ ELSE EXPANDED_TERMS_,
                         DamagedText(damage), layout)]

ParseCalls ==
    { ParseCall(fn, object, layout, trailing) :
        fn \in { "step1_formula_analysis", "expanded_search_for_missing_info" },
        object \in 1..Len(JsonTexts), layout \in Layouts, trailing \in Trailings }
    \cup
    { DamagedCall(fn, damage, layout) :
        fn \in { "step1_formula_analysis", "expanded_search_for_missing_info" },
        damage \in Damages, layout \in { "same line", "next line" } }

\* ------------------------------------------------------------------------
\* step2_initial_rag_search: inputs
\* ------------------------------------------------------------------------

W_rev == << "r", "e", "v" >>
W_tax == << "t", "a", "x" >>

KeyTermLists == { << >>, << W_rev >>, << W_tax >>, << W_rev, W_tax >>, << W_tax, W_rev >> }

\* synonym tables: none, two synonyms that both occur in "Rev 5. Tax 9.",
\* a synonym that occurs nowhere before one that does, an empty list
SynonymTables ==
    { << >>,
      << [k |-> W_rev, v |-> << << "R", "e", "v" >>, << "5" >> >>] >>,
      << [k |-> W_rev, v |-> << << "s", "a", "l", "e", "s" >>, << "R", "e", "v" >> >>],
         [k |-> W_tax, v |-> << << "T", "a", "x" >>, << "9" >> >>] >>,
      << [k |-> W_rev, v |-> << >>] >> }

SearchCalls ==
    { [fn |-> "step2_initial_rag_search", key_terms |-> kt, synonyms |-> sy, context |-> ctx] :
        kt \in KeyTermLists, sy \in SynonymTables, ctx \in Contexts }

\* ------------------------------------------------------------------------
\* step3_attempt_answer: inputs
\* ------------------------------------------------------------------------

MISSING_INFO_ == << "MISSING_INFO", ":" >>
INSUFFICIENT_INFO_ == << "INSUFFICIENT_INFO", ":" >>

\* how a reply opens
Openings == { "none", "prose" }

OpeningText(opening) ==
    IF opening = "prose" THEN << "S", "u", "r", "e", "." >> \o NL ELSE << >>

\* the substituted formula: absent, after the marker, on the line below the
\* marker, and the marker twice, on one line and on two
Readies == { "none", "same line", "next line", "twice on a line", "twice" }

ReadyText(ready) ==
    IF ready = "same line" THEN CALCULATION_READY_ \o << " ", "5", " ", "-", " ", "3" >>
    ELSE IF ready = "next line" THEN CALCULATION_READY_ \o NL \o << "5", " ", "-", " ", "3" >>
    ELSE IF ready = "twice on a line" THEN
        CALCULATION_READY_ \o << " ", "5", " " >> \o CALCULATION_READY_ \o << " ", "6" >>
    ELSE IF ready = "twice" THEN
        CALCULATION_READY_ \o << " ", "5" >> \o NL \o CALCULATION_READY_ \o << " ", "6" >>
    ELSE << >>

\* the explanation: absent, on a line of its own, followed by a further line,
\* and on the line it follows
Explanations == { "none", "own line", "two lines", "same line" }

ExplanationText(explanation) ==
    IF explanation = "own line" THEN NL \o RESULT_EXPLANATION_ \o << " ", "o", "k" >>
    ELSE IF explanation = "two lines" THEN
        NL \o RESULT_EXPLANATION_ \o << " ", "o", "k" >> \o NL \o << "m", "o", "r", "e" >>
    ELSE IF explanation = "same line" THEN << " " >> \o RESULT_EXPLANATION_ \o << " ", "o", "k" >>
    ELSE << >>

\* what else the reply reports
Reports == { "none", "missing", "insufficient" }

ReportText(report) ==
    IF report = "missing" THEN NL \o MISSING_INFO_ \o << " ", "t", "a", "x" >>
    ELSE IF report = "insufficient" THEN NL \o INSUFFICIENT_INFO_ \o << " ", "x" >>
    ELSE << >>

\* a call of step3_attempt_answer with an llm that gives this reply
AttemptCall(opening, ready, explanation, report) ==
    [fn |-> "step3_attempt_answer",
     opening |-> opening, ready |-> ready, explanation |-> explanation,
     report |-> report,
     reply |-> OpeningText(opening) \o ReadyText(ready)
               \o ExplanationText(explanation) \o ReportText(report)]

AttemptCalls ==
    { AttemptCall(opening, ready, explanation, report) :
        opening \in Openings, ready \in Readies,
        explanation \in Explanations, report \in Reports }

\* ------------------------------------------------------------------------
\* The candidate list of expanded_search_for_missing_info: inputs
\* ------------------------------------------------------------------------

\* the most synonyms one reply lists
MaxSynonyms == 2

\* synonyms that differ in case only, that share words, that hold a stop
\* word, of one word and of three
Synonyms ==
    { << "T", "A", "X" >>,
      << "t", "a", "x" >>,
      << "P", "r", "e", " ", "T", "a", "x", " ", "I", "n", "c", "o", "m", "e" >>,
      << "p", "r", "e", " ", "t", "a", "x" >>,
      << "t", "h", "e", " ", "t", "a", "x" >>,
      << "e", "b", "t" >>,
      << >> }

SynonymLists == UNION { [1..n -> Synonyms] : n \in 0..MaxSynonyms }

\* expanded_terms with all synonyms under one term, or one term for each
ExpandedTermTables ==
    { << [k |-> HARDCODED_MISSING_INFO, v |-> l] >> : l \in SynonymLists }
    \cup { [n \in 1..Len(l) |-> [k |-> << "t", << "1", "2", "3", "4" >>[n] >>, v |-> << l[n] >>]] :
             l \in SynonymLists }

CandidateCalls ==
    { [fn |-> "expanded_search_for_missing_info", expanded_terms |-> t] :
        t \in ExpandedTermTables }

\* ------------------------------------------------------------------------
\* State
\* ------------------------------------------------------------------------

VARIABLES
    \* run_agent
    context,         \* the parameter
    \* conceptual_question
    max_iterations,  \* the parameter
    i,               \* the loop variable of "for i in range(1, max_iterations + 1)"
    tool_results,    \* the running context: the entries appended so far
    response,        \* the reply in hand; << >> between iterations, where the
                     \* local is dead until the next llm.invoke assigns it
    cq_pc,           \* "not_called" | "loop" | "decide" | "returned" | "raised"
    cq_return,       \* the returned string, once cq_pc = "returned"
    invokes,         \* the number of llm.invoke calls made so far
    tool_calls,      \* the tool.func calls made since the last llm.invoke
    \* basic_or_assumption_question
    bq_pc,           \* "not_called", the step about to run, or "returned" | "raised"
    bq_exception,    \* the exception that left the function, once bq_pc = "raised"
    bq_return,       \* the returned string, once bq_pc = "returned"
    step1_result,    \* formula, key_terms and synonyms
    extracted_info,
    step3_result,
    analysis_result,
    step4_result,    \* bound is FALSE while the local has not been assigned;
                     \* snippets is the size of the search's found_info dictionary
    all_extracted_info,
    step5_result,
    final_answer,
    step_logs,       \* logger.step_logs
    log_file,        \* the number of entries the log file holds
    steps,           \* the steps entered so far, in order
    attempts,        \* the step3_attempt_answer calls made so far
    \* a function called on its own, outside the pipeline
    fn_pc,           \* "not_called" | "called" | "returned" | "raised"
    fn_call,         \* the function called and its arguments
    fn_return        \* what the call returned, once fn_pc = "returned"

cqVars == << max_iterations, i, tool_results, response, cq_pc, cq_return,
             invokes, tool_calls >>

bqVars == << bq_pc, bq_exception, bq_return, step1_result, extracted_info,
             step3_result, analysis_result, step4_result, all_extracted_info,
             step5_result, final_answer, step_logs, log_file, steps, attempts >>

fnVars == << fn_pc, fn_call, fn_return >>

vars == << context, cqVars, bqVars, fnVars >>

\* ------------------------------------------------------------------------
\* conceptual_question
\* ------------------------------------------------------------------------

\* one entry of tool_results
UsedEntry(tool_name, result) == [kind |-> "used", tool |-> tool_name, text |-> result]
ErrorEntry(e) == [kind |-> "error", tool |-> << >>, text |-> << "Failed to use tool", e >>]
NeedMoreEntry == [kind |-> "agent", tool |-> << >>, text |-> << "Requested more info. Skipping." >>]
UnparsedEntry == [kind |-> "error", tool |-> << >>, text |-> << "Could not parse decision." >>]

\* next(t for t in tools if t.name == tool_name): the index of the first
\* tool of that name, 0 when the generator is exhausted (StopIteration)
FirstTool(tool_name) ==
    LET hits == { k \in 1..Len(tools) : tools[k].name = tool_name }
    IN  IF hits = {} THEN 0 ELSE CHOOSE k \in hits : \A j \in hits : k <= j

\* use_tool with the last tool of the name picked instead of the first
use_tool_last_match(detail, outcome) ==
    LET parts == SplitOnce(detail, << "with" >>)
    IN  IF Len(parts) # 2 THEN
            [calls |-> << >>, entry |-> ErrorEntry("ValueError")]
        ELSE
            LET tool_name == Strip(parts[1])
                tool_input == Strip(parts[2])
                hits == { k \in 1..Len(tools) : tools[k].name = tool_name }
            IN  IF hits = {} THEN
                    [calls |-> << >>, entry |-> ErrorEntry("StopIteration")]
                ELSE
                    LET k == CHOOSE n \in hits : \A j \in hits : n >= j
                        call == [func |-> tools[k].func, input |-> tool_input,
                                 outcome |-> outcome]
                    IN  IF outcome = "raised" THEN
                            [calls |-> << call >>, entry |-> ErrorEntry("ToolError")]
                        ELSE
                            [calls |-> << call >>,
                             entry |-> UsedEntry(tool_name, ToolOutput(tools[k].func))]

\* use_tool with a raising tool recorded as if it had returned nothing
use_tool_swallow(detail, outcome) ==
    LET parts == SplitOnce(detail, << "with" >>)
    IN  IF Len(parts) # 2 THEN
            [calls |-> << >>, entry |-> ErrorEntry("ValueError")]
        ELSE
            LET tool_name == Strip(parts[1])
                tool_input == Strip(parts[2])
                k == FirstTool(tool_name)
            IN  IF k = 0 THEN
                    [calls |-> << >>, entry |-> ErrorEntry("StopIteration")]
                ELSE
                    LET call == [func |-> tools[k].func, input |-> tool_input,
                                 outcome |-> outcome]
                    IN  IF outcome = "raised" THEN
                            [calls |-> << call >>, entry |-> UsedEntry(tool_name, << >>)]
                        ELSE
                            [calls |-> << call >>,
                             entry |-> UsedEntry(tool_name, ToolOutput(tools[k].func))]

\* the try block of the USE_TOOL branch. outcome is what the tool function
\* does if it gets called: "returned" or "raised".
\* The result: the tool calls made and the entry appended to tool_results.
use_tool(detail, outcome) ==
    LET parts == SplitOnce(detail, << "with" >>)
    IN  IF Len(parts) # 2 THEN
            [calls |-> << >>, entry |-> ErrorEntry("ValueError")]
        ELSE
            LET tool_name == Strip(parts[1])
                tool_input == Strip(parts[2])
                k == FirstTool(tool_name)
            IN  IF k = 0 THEN
                    [calls |-> << >>, entry |-> ErrorEntry("StopIteration")]
                ELSE
                    LET call == [func |-> tools[k].func, input |-> tool_input,
                                 outcome |-> outcome]
                    IN  IF outcome = "raised" THEN
                            [calls |-> << call >>, entry |-> ErrorEntry("ToolError")]
                        ELSE
                            [calls |-> << call >>,
                             entry |-> UsedEntry(tool_name, ToolOutput(tools[k].func))]

\* before the call: the locals of conceptual_question do not exist yet
CQInit ==
    /\ max_iterations \in 0..MaxIter
    /\ i = 1
    /\ tool_results = << >>
    /\ response = << >>
    /\ cq_pc = "not_called"
    /\ cq_return = << >>
    /\ invokes = 0
    /\ tool_calls = << >>

\* response = llm.invoke(prompt)
CQ_Invoke ==
    /\ cq_pc = "loop"
    /\ i <= max_iterations
    /\ \E reply \in Replies : response' = reply
    /\ invokes' = invokes + 1
    /\ tool_calls' = << >>
    /\ cq_pc' = "decide"
    /\ UNCHANGED << max_iterations, i, tool_results, cq_return >>
    /\ UNCHANGED << context, bqVars, fnVars >>

\* parse_decision raises: nothing in conceptual_question catches it
CQ_ParseRaises ==
    /\ cq_pc = "decide"
    /\ parse_decision(response).raised
    /\ cq_pc' = "raised"
    /\ UNCHANGED << max_iterations, i, tool_results, response, cq_return,
                    invokes, tool_calls >>
    /\ UNCHANGED << context, bqVars, fnVars >>

CQ_UseTool ==
    /\ cq_pc = "decide"
    /\ ~parse_decision(response).raised
    /\ parse_decision(response).type = "USE_TOOL"
    /\ \E outcome \in {"returned", "raised"} :
          LET r == use_tool(parse_decision(response).detail, outcome)
          IN  /\ tool_calls' = tool_calls \o r.calls
              /\ tool_results' = Append(tool_results, r.entry)
    /\ i' = i + 1
    /\ response' = << >>
    /\ cq_pc' = "loop"
    /\ UNCHANGED << max_iterations, cq_return, invokes >>
    /\ UNCHANGED << context, bqVars, fnVars >>

CQ_Synthesize ==
    /\ cq_pc = "decide"
    /\ ~parse_decision(response).raised
    /\ parse_decision(response).type = "SYNTHESIZE"
    /\ cq_return' = Strip(parse_decision(response).detail)
    /\ cq_pc' = "returned"
    /\ UNCHANGED << max_iterations, i, tool_results, response, invokes, tool_calls >>
    /\ UNCHANGED << context, bqVars, fnVars >>

CQ_NeedMore ==
    /\ cq_pc = "decide"
    /\ ~parse_decision(response).raised
    /\ parse_decision(response).type = "NEED_MORE"
    /\ tool_results' = Append(tool_results, NeedMoreEntry)
    /\ i' = i + 1
    /\ response' = << >>
    /\ cq_pc' = "loop"
    /\ UNCHANGED << max_iterations, cq_return, invokes, tool_calls >>
    /\ UNCHANGED << context, bqVars, fnVars >>

CQ_Unknown ==
    /\ cq_pc = "decide"
    /\ ~parse_decision(response).raised
    /\ parse_decision(response).type = "UNKNOWN"
    /\ tool_results' = Append(tool_results, UnparsedEntry)
    /\ i' = i + 1
    /\ response' = << >>
    /\ cq_pc' = "loop"
    /\ UNCHANGED << max_iterations, cq_return, invokes, tool_calls >>
    /\ UNCHANGED << context, bqVars, fnVars >>

\* the for loop is over: the fixed failure string
CQ_Exhausted ==
    /\ cq_pc = "loop"
    /\ i > max_iterations
    /\ cq_return' = FAILED_TO_SYNTHESIZE
    /\ cq_pc' = "returned"
    /\ UNCHANGED << max_iterations, i, tool_results, response, invokes, tool_calls >>
    /\ UNCHANGED << context, bqVars, fnVars >>

CQNext ==
    \/ CQ_Invoke
    \/ CQ_ParseRaises
    \/ CQ_UseTool
    \/ CQ_Synthesize
    \/ CQ_NeedMore
    \/ CQ_Unknown
    \/ CQ_Exhausted

\* ------------------------------------------------------------------------
\* basic_or_assumption_question
\* ------------------------------------------------------------------------

\* one entry of logger.step_logs: function_name or type, step_number, and the
\* final answer or the decision it carries (timestamps and ids are left out)
LogEntry(name, step_number, data) ==
    [name |-> name, step_number |-> step_number, data |-> data]

\* the dictionary the completeness check is hardcoded to
HARDCODED_ANALYSIS ==
    [completeness |-> "INCOMPLETE",
     missing_info |-> HARDCODED_MISSING_INFO,
     next_step |-> "STEP_4",
     decision_reasoning |-> << "Missing information: pre tax income" >>]

\* one call of step3_attempt_answer
Attempt(step, formula, info, outcome) ==
    [step |-> step, formula |-> formula, extracted_info |-> info, outcome |-> outcome]

\* the found text put in the place of the text gathered so far
Combined_replaces(info, found_info) == found_info

\* extracted_info + "\n\n" + found_info
Combined(info, found_info) == info \o BLANK_LINE \o found_info

\* the entries of a sequence at the positions in keep, in their order
Pick(entries, keep) ==
    LET F[n \in 0..Len(entries)] ==
            IF n = 0 THEN << >>
            ELSE IF n \in keep THEN Append(F[n - 1], entries[n]) ELSE F[n - 1]
    IN  F[Len(entries)]

\* logging calls that drop the entry whose file write fails
log_calls_drops(logs, file, entries, written) ==
    [step_logs |-> logs \o Pick(entries, written),
     log_file |-> file + Cardinality(written)]

\* a run of logging calls, one per entry: each appends its entry to
\* step_logs and then hands it to _write_to_file, which swallows the
\* exception of a failing write. written: the positions of the entries whose
\* write succeeds.
log_calls(logs, file, entries, written) ==
    [step_logs |-> logs \o entries,
     log_file |-> file + Cardinality(written)]

\* the logging calls of one step, with every outcome of their file writes
Logged(entries) ==
    \E written \in SUBSET (1..Len(entries)) :
        LET lg == log_calls(step_logs, log_file, entries, written)
        IN  /\ step_logs' = lg.step_logs
            /\ log_file' = lg.log_file

\* before the call: the locals of basic_or_assumption_question are empty, and
\* step4_result, which the code may read before assigning it, is unbound
BQInit ==
    /\ bq_pc = "not_called"
    /\ bq_exception = ""
    /\ bq_return = << >>
    /\ step1_result = [formula |-> << >>, key_terms |-> << >>, synonyms |-> << >>]
    /\ extracted_info = << >>
    /\ step3_result = [attempt_result |-> << >>, result_explanation |-> << >>]
    /\ analysis_result = [completeness |-> "", missing_info |-> << >>,
                          next_step |-> "", decision_reasoning |-> << >>]
    /\ step4_result = [bound |-> FALSE, found_info |-> << >>, snippets |-> 0]
    /\ all_extracted_info = << >>
    /\ step5_result = [attempt_result |-> << >>, result_explanation |-> << >>]
    /\ final_answer = << >>
    /\ step_logs = << >>
    /\ log_file = 0
    /\ steps = << >>
    /\ attempts = << >>

\* log_execution_start, then step 1: the llm.invoke of step1_formula_analysis
\* is outside any try block, so its exception leaves the function
BQ_FormulaDiscovery ==
    /\ bq_pc = "FORMULA_DISCOVERY"
    /\ steps' = Append(steps, "FORMULA_DISCOVERY")
    /\ \E outcome \in LLMOutcomes(Step1Replies) :
          IF outcome.raised THEN
              /\ Logged(<< LogEntry("EXECUTION_START", "", << >>) >>)
              /\ bq_pc' = "raised"
              /\ bq_exception' = "LLMError"
              /\ UNCHANGED step1_result
          ELSE
              /\ step1_result' = step1_formula_analysis(outcome.text)
              /\ Logged(<< LogEntry("EXECUTION_START", "", << >>),
                           LogEntry("step1_formula_analysis", "1", << >>) >>)
              /\ bq_pc' = "INITIAL_SEARCH"
              /\ UNCHANGED bq_exception
    /\ UNCHANGED << context, fnVars, cqVars, bq_return, extracted_info, step3_result,
                    analysis_result, step4_result, all_extracted_info,
                    step5_result, final_answer, attempts >>

\* step 2 with the draft attempt skipped
BQ_InitialSearch_skips_draft ==
    /\ bq_pc = "INITIAL_SEARCH"
    /\ steps' = Append(steps, "INITIAL_SEARCH")
    /\ extracted_info' = step2_initial_rag_search(step1_result.key_terms,
                                                  step1_result.synonyms, context)
    /\ Logged(<< LogEntry("step2_initial_rag_search", "2", << >>) >>)
    /\ bq_pc' = "COMPLETENESS_CHECK"
    /\ UNCHANGED << context, fnVars, cqVars, bq_exception, bq_return, step1_result,
                    step3_result, analysis_result, step4_result,
                    all_extracted_info, step5_result, final_answer, attempts >>

\* step 2: no LLM call
BQ_InitialSearch ==
    /\ bq_pc = "INITIAL_SEARCH"
    /\ steps' = Append(steps, "INITIAL_SEARCH")
    /\ extracted_info' = step2_initial_rag_search(step1_result.key_terms,
                                                  step1_result.synonyms, context)
    /\ Logged(<< LogEntry("step2_initial_rag_search", "2", << >>) >>)
    /\ bq_pc' = "DRAFT_ATTEMPT"
    /\ UNCHANGED << context, fnVars, cqVars, bq_exception, bq_return, step1_result,
                    step3_result, analysis_result, step4_result,
                    all_extracted_info, step5_result, final_answer, attempts >>

\* step 3: step3_attempt_answer on the formula of step 1
BQ_DraftAttempt ==
    /\ bq_pc = "DRAFT_ATTEMPT"
    /\ steps' = Append(steps, "DRAFT_ATTEMPT")
    /\ \E outcome \in LLMOutcomes(AttemptReplies) :
          /\ attempts' = Append(attempts, Attempt("DRAFT_ATTEMPT", step1_result.formula,
                                                  extracted_info, outcome))
          /\ IF outcome.raised THEN
                 /\ bq_pc' = "raised"
                 /\ bq_exception' = "LLMError"
                 /\ UNCHANGED << step3_result, step_logs, log_file >>
             ELSE
                 /\ step3_result' = step3_attempt_answer(outcome.text)
                 /\ Logged(<< LogEntry("step3_attempt_answer", "3", << >>) >>)
                 /\ bq_pc' = "COMPLETENESS_CHECK"
                 /\ UNCHANGED bq_exception
    /\ UNCHANGED << context, fnVars, cqVars, bq_return, step1_result, extracted_info,
                    analysis_result, step4_result, all_extracted_info,
                    step5_result, final_answer >>

\* the decision point: analysis_result is a literal, analyze_completeness is
\* not called. log_decision receives next_step in the place of step_number.
\* The STEP_6 branch is the only way to log_execution_end and to the return.
BQ_CompletenessCheck ==
    /\ bq_pc = "COMPLETENESS_CHECK"
    /\ steps' = Append(steps, "COMPLETENESS_CHECK")
    /\ analysis_result' = HARDCODED_ANALYSIS
    /\ LET logged == << LogEntry("analyze_completeness", "3.5", << >>),
                         LogEntry("DECISION", analysis_result'.next_step,
                                  analysis_result'.decision_reasoning) >>
       IN  IF analysis_result'.next_step = "STEP_6" THEN
               /\ final_answer' = step3_result.attempt_result
               /\ all_extracted_info' = extracted_info
               /\ Logged(Append(logged, LogEntry("EXECUTION_END", "", final_answer')))
               /\ bq_return' = final_answer'
               /\ bq_pc' = "returned"
           ELSE
               /\ Logged(logged)
               /\ bq_pc' = "EXPANDED_SEARCH"
               /\ UNCHANGED << final_answer, all_extracted_info, bq_return >>
    /\ UNCHANGED << context, fnVars, cqVars, bq_exception, step1_result, extracted_info,
                    step3_result, step4_result, step5_result, attempts >>

\* step 4: the search runs only for a non-empty missing_info; its llm.invoke
\* is outside any try block
BQ_ExpandedSearch ==
    /\ bq_pc = "EXPANDED_SEARCH"
    /\ LET missing_info == analysis_result.missing_info
       IN  IF missing_info # << >> THEN
               /\ steps' = Append(steps, "EXPANDED_SEARCH")
               /\ \E outcome \in LLMOutcomes(ExpandedReplies) :
                     IF outcome.raised THEN
                         /\ bq_pc' = "raised"
                         /\ bq_exception' = "LLMError"
                         /\ UNCHANGED << step4_result, all_extracted_info, step_logs,
                                         log_file >>
                     ELSE
                         /\ step4_result' =
                               [bound |-> TRUE,
                                found_info |-> expanded_search_for_missing_info(
                                                   missing_info, context, outcome.text),
                                snippets |-> Len(expanded_found_info(
                                                   missing_info, context, outcome.text))]
                         /\ Logged(<< LogEntry("expanded_search_for_missing_info", "4",
                                                << >>) >>)
                         /\ all_extracted_info' =
                               IF step4_result'.found_info # << >>
                               THEN Combined(extracted_info, step4_result'.found_info)
                               ELSE extracted_info
                         /\ bq_pc' = "FINAL_ATTEMPT"
                         /\ UNCHANGED bq_exception
           ELSE
               /\ all_extracted_info' = extracted_info
               /\ bq_pc' = "FINAL_ATTEMPT"
               /\ UNCHANGED << steps, step4_result, step_logs, log_file, bq_exception >>
    /\ UNCHANGED << context, fnVars, cqVars, bq_return, step1_result, extracted_info,
                    step3_result, analysis_result, step5_result, final_answer,
                    attempts >>

\* step 5: step3_attempt_answer on the literal test_formula, then exit(),
\* which raises SystemExit
BQ_FinalAttempt ==
    /\ bq_pc = "FINAL_ATTEMPT"
    /\ steps' = Append(steps, "FINAL_ATTEMPT")
    /\ IF ~step4_result.bound THEN
           /\ all_extracted_info' = extracted_info
           /\ bq_pc' = "raised"
           /\ bq_exception' = "NameError"
           /\ UNCHANGED << step5_result, final_answer, step_logs, log_file, attempts >>
       ELSE
           /\ all_extracted_info' =
                 IF step4_result.found_info # << >>
                 THEN Combined(extracted_info, step4_result.found_info)
                 ELSE extracted_info
           /\ \E outcome \in LLMOutcomes(AttemptReplies) :
                 /\ attempts' = Append(attempts, Attempt("FINAL_ATTEMPT", TEST_FORMULA,
                                                         all_extracted_info', outcome))
                 /\ IF outcome.raised THEN
                        /\ bq_exception' = "LLMError"
                        /\ UNCHANGED << step5_result, final_answer, step_logs, log_file >>
                    ELSE
                        /\ step5_result' = step3_attempt_answer(outcome.text)
                        /\ Logged(<< LogEntry("step5_final_attempt", "5", << >>) >>)
                        /\ final_answer' = step5_result'.attempt_result
                        /\ bq_exception' = "SystemExit"
           /\ bq_pc' = "raised"
    /\ UNCHANGED << context, fnVars, cqVars, bq_return, step1_result, extracted_info,
                    step3_result, analysis_result, step4_result >>

BQNext ==
    \/ BQ_FormulaDiscovery
    \/ BQ_InitialSearch
    \/ BQ_DraftAttempt
    \/ BQ_CompletenessCheck
    \/ BQ_ExpandedSearch
    \/ BQ_FinalAttempt

\* ------------------------------------------------------------------------
\* run_agent
\* ------------------------------------------------------------------------

NO_CONTEXT_AVAILABLE == << "No context available" >>

\* contexts that run_agent does not take for a context
NoContexts == { << >>, << " ", "\n" >>, NO_CONTEXT_AVAILABLE }

\* context and context.strip() and context != 'No context available'
Meaningful(ctx) == ctx # << >> /\ Strip(ctx) # << >> /\ ctx # NO_CONTEXT_AVAILABLE

\* nothing is called outside the pipeline
Init ==
    /\ context \in Contexts \cup NoContexts
    /\ CQInit
    /\ BQInit
    /\ fn_pc = "not_called"
    /\ fn_call = NoCall
    /\ fn_return = << >>

\* the dispatch. conceptual_question is not handed the context, which is
\* dropped here.
run_agent ==
    /\ cq_pc = "not_called"
    /\ bq_pc = "not_called"
    /\ IF Meaningful(context) THEN
           /\ bq_pc' = "FORMULA_DISCOVERY"
           /\ UNCHANGED << context, cq_pc >>
       ELSE
           /\ cq_pc' = "loop"
           /\ context' = << >>
           /\ UNCHANGED bq_pc
    /\ UNCHANGED << max_iterations, i, tool_results, response, cq_return, invokes,
                    tool_calls, bq_exception, bq_return, step1_result,
                    extracted_info, step3_result, analysis_result, step4_result,
                    all_extracted_info, step5_result, final_answer, step_logs,
                    log_file, steps, attempts >>
    /\ UNCHANGED fnVars

Next ==
    \/ run_agent
    \/ CQNext
    \/ BQNext

Spec == Init /\ [][Next]_vars

\* ------------------------------------------------------------------------
\* tools/calculator.py: one call of extract_numerical_values or of
\* perform_financial_calculation
\* ------------------------------------------------------------------------

CalcInit ==
    /\ context = << >>
    /\ CQInit
    /\ max_iterations = 0
    /\ BQInit
    /\ fn_call \in ExtractCalls \cup PerformCalls
    /\ fn_pc = "called"
    /\ fn_return = << >>

\* extract_numerical_values(extracted_info): the dictionary, or the
\* ValueError of float()
Calc_Extract ==
    /\ fn_pc = "called"
    /\ fn_call.fn = "extract_numerical_values"
    /\ LET r == extract_numerical_values(fn_call.text)
       IN  /\ fn_pc' = IF r.raised THEN "raised" ELSE "returned"
           /\ fn_return' = r.values
    /\ UNCHANGED << context, cqVars, bqVars, fn_call >>

\* perform_financial_calculation(formula, numerical_values)
Calc_Perform ==
    /\ fn_pc = "called"
    /\ fn_call.fn = "perform_financial_calculation"
    /\ fn_return' = perform_financial_calculation(fn_call.formula,
                                                     fn_call.numerical_values)
    /\ fn_pc' = IF fn_return'.raised THEN "raised" ELSE "returned"
    /\ UNCHANGED << context, cqVars, bqVars, fn_call >>

CalcNext ==
    \/ Calc_Extract
    \/ Calc_Perform

CalcSpec == CalcInit /\ [][CalcNext]_vars

\* ------------------------------------------------------------------------
\* The bracketed JSON of a reply: one call of step1_formula_analysis or of
\* expanded_search_for_missing_info
\* ------------------------------------------------------------------------

ParseInit ==
    /\ context = << >>
    /\ CQInit
    /\ max_iterations = 0
    /\ BQInit
    /\ fn_call \in ParseCalls
    /\ fn_pc = "called"
    /\ fn_return = << >>

\* json.loads returned for the SYNONYMS line of the reply
Step1Loaded(formula_response) ==
    LET lines == Split(formula_response, NL)
    IN  \E n \in 1..Len(lines) :
            /\ StartsWith(Strip(lines[n]), SYNONYMS_)
            /\ JsonLoads(SynonymsJsonText(Strip(lines[n]), formula_response)).ok

\* json.loads returned for the EXPANDED_TERMS section of the reply
ExpandedLoaded(expanded_terms_response) ==
    /\ Contains(expanded_terms_response, EXPANDED_TERMS_)
    /\ LET terms_section == Strip(Split(expanded_terms_response, EXPANDED_TERMS_)[2])
           brace_start == Find(terms_section, << "{" >>)
       IN  /\ brace_start # -1
           /\ BraceEnd(terms_section, brace_start) # -1
           /\ JsonLoads(Slice(terms_section, brace_start,
                              BraceEnd(terms_section, brace_start))).ok

\* step1_formula_analysis: the synonyms of its result
Parse_Step1 ==
    /\ fn_pc = "called"
    /\ fn_call.fn = "step1_formula_analysis"
    /\ fn_return' = [loaded |-> Step1Loaded(fn_call.reply),
                     mapping |-> step1_formula_analysis(fn_call.reply).synonyms]
    /\ fn_pc' = "returned"
    /\ UNCHANGED << context, cqVars, bqVars, fn_call >>

\* expanded_search_for_missing_info: its expanded_terms
Parse_Expanded ==
    /\ fn_pc = "called"
    /\ fn_call.fn = "expanded_search_for_missing_info"
    /\ fn_return' = [loaded |-> ExpandedLoaded(fn_call.reply),
                     mapping |-> ParseExpandedTerms(fn_call.reply, HARDCODED_MISSING_INFO)]
    /\ fn_pc' = "returned"
    /\ UNCHANGED << context, cqVars, bqVars, fn_call >>

ParseNext ==
    \/ Parse_Step1
    \/ Parse_Expanded

ParseSpec == ParseInit /\ [][ParseNext]_vars

\* ------------------------------------------------------------------------
\* One call of step2_initial_rag_search
\* ------------------------------------------------------------------------

SearchInit ==
    /\ CQInit
    /\ max_iterations = 0
    /\ BQInit
    /\ fn_call \in SearchCalls
    /\ context = << >>
    /\ fn_pc = "called"
    /\ fn_return = << >>

\* step2_initial_rag_search(key_terms, synonyms, context): the text returned
Search_Step2 ==
    /\ fn_pc = "called"
    /\ fn_call.fn = "step2_initial_rag_search"
    /\ fn_return' = step2_initial_rag_search(fn_call.key_terms, fn_call.synonyms,
                                             fn_call.context)
    /\ fn_pc' = "returned"
    /\ UNCHANGED << context, cqVars, bqVars, fn_call >>

SearchNext ==
    \/ Search_Step2

SearchSpec == SearchInit /\ [][SearchNext]_vars

\* ------------------------------------------------------------------------
\* One call of step3_attempt_answer
\* ------------------------------------------------------------------------

AttemptInit ==
    /\ context = << >>
    /\ CQInit
    /\ max_iterations = 0
    /\ BQInit
    /\ fn_call \in AttemptCalls
    /\ fn_pc = "called"
    /\ fn_return = << >>

\* step3_attempt_answer(question, formula, extracted_info, llm)
Attempt_Step3 ==
    /\ fn_pc = "called"
    /\ fn_call.fn = "step3_attempt_answer"
    /\ fn_return' = step3_attempt_answer(fn_call.reply)
    /\ fn_pc' = "returned"
    /\ UNCHANGED << context, cqVars, bqVars, fn_call >>

AttemptNext == Attempt_Step3

AttemptSpec == AttemptInit /\ [][AttemptNext]_vars

\* ------------------------------------------------------------------------
\* One call of expanded_search_for_missing_info, up to its candidate list
\* ------------------------------------------------------------------------

CandidateInit ==
    /\ context = << >>
    /\ CQInit
    /\ max_iterations = 0
    /\ BQInit
    /\ fn_call \in CandidateCalls
    /\ fn_pc = "called"
    /\ fn_return = << >>

\* all_search_terms, sub_component_terms and unique_search_terms
Candidate_List ==
    /\ fn_pc = "called"
    /\ fn_call.fn = "expanded_search_for_missing_info"
    /\ fn_return' = unique_search_terms(fn_call.expanded_terms)
    /\ fn_pc' = "returned"
    /\ UNCHANGED << context, cqVars, bqVars, fn_call >>

CandidateNext == Candidate_List

CandidateSpec == CandidateInit /\ [][CandidateNext]_vars

\* ------------------------------------------------------------------------
\* The INCOMPLETE branch of basic_or_assumption_question on its own: steps 4
\* and 5 for a completeness result handed to them
\* ------------------------------------------------------------------------

\* what analyze_completeness returns for a reply without a MISSING_INFO line:
\* its defaults, INCOMPLETE with an empty missing_info, and STEP_4
NOTHING_MISSING ==
    [completeness |-> "INCOMPLETE",
     missing_info |-> << >>,
     next_step |-> "STEP_4",
     decision_reasoning |-> << "Missing information: " >>]

\* the completeness results of the INCOMPLETE path; the first is the one
\* basic_or_assumption_question is hardcoded to
AnalysisResults == { HARDCODED_ANALYSIS, NOTHING_MISSING }

\* the locals at "else:" of the decision point, after steps 1 to 3
BranchInit ==
    /\ context \in Contexts
    /\ CQInit
    /\ max_iterations = 0
    /\ fn_pc = "not_called"
    /\ fn_call = NoCall
    /\ fn_return = << >>
    /\ bq_pc = "EXPANDED_SEARCH"
    /\ bq_exception = ""
    /\ bq_return = << >>
    /\ \E reply \in Step1Replies : step1_result = step1_formula_analysis(reply)
    /\ extracted_info = step2_initial_rag_search(step1_result.key_terms,
                                                 step1_result.synonyms, context)
    /\ \E reply \in AttemptReplies : step3_result = step3_attempt_answer(reply)
    /\ analysis_result \in AnalysisResults
    /\ step4_result = [bound |-> FALSE, found_info |-> << >>, snippets |-> 0]
    /\ all_extracted_info = << >>
    /\ step5_result = [attempt_result |-> << >>, result_explanation |-> << >>]
    /\ final_answer = << >>
    /\ step_logs = << >>
    /\ log_file = 0
    /\ steps = << "FORMULA_DISCOVERY", "INITIAL_SEARCH", "DRAFT_ATTEMPT",
                  "COMPLETENESS_CHECK" >>
    /\ attempts = << >>

BranchNext ==
    \/ BQ_ExpandedSearch
    \/ BQ_FinalAttempt

BranchSpec == BranchInit /\ [][BranchNext]_vars

\* ------------------------------------------------------------------------
\* Claims about conceptual_question and parse_decision
\* ------------------------------------------------------------------------

\* the reply parses, and to a decision of type t
ParsesTo(reply, t) ==
    /\ ~parse_decision(reply).raised
    /\ parse_decision(reply).type = t

CQ_Terminated == cq_pc \in {"returned", "raised"}

\* everything that follows the first occurrence of marker, trimmed
TrimmedAfter(text, marker) ==
    Strip(Slice(text, Find(text, marker) + Len(marker), Len(text)))

\* C1: conceptual_question terminates within its budget: it calls
\* llm.invoke at most max_iterations times, and a run in which no reply
\* produced a SYNTHESIZE decision ends by returning the fixed failure string.
C1_BudgetAndFixedString ==
    /\ invokes <= max_iterations
    /\ (CQ_Terminated /\ ~ParsesTo(response, "SYNTHESIZE"))
          => (cq_pc = "returned" /\ cq_return = FAILED_TO_SYNTHESIZE)

\* C2: whatever marker words the replies contain, with or without a colon,
\* parse_decision raises for none of them and no exception escapes
\* conceptual_question.
C2_NoExceptionEscapes ==
    /\ cq_pc = "decide" => ~parse_decision(response).raised
    /\ cq_pc # "raised"

\* C3: parse_decision resolves markers in the priority order USE_TOOL,
\* SYNTHESIZE, NEED_MORE, UNKNOWN wherever they stand in the reply; NEED_MORE
\* carries an empty payload and UNKNOWN carries the raw reply.
C3_MarkerPriority ==
    cq_pc = "decide" =>
        LET ut == Contains(response, << "USE_TOOL" >>)
            sy == Contains(response, << "SYNTHESIZE" >>)
            nm == Contains(response, << "NEED_MORE" >>)
            d  == parse_decision(response)
        IN  /\ ut => ParsesTo(response, "USE_TOOL")
            /\ (~ut /\ sy) => ParsesTo(response, "SYNTHESIZE")
            /\ (~ut /\ ~sy /\ nm) => (ParsesTo(response, "NEED_MORE") /\ d.detail = << >>)
            /\ (~ut /\ ~sy /\ ~nm) => (ParsesTo(response, "UNKNOWN") /\ d.detail = response)

\* C4: the first iteration whose reply parses to SYNTHESIZE ends the loop:
\* the function returns the trimmed text after "SYNTHESIZE:" and makes no
\* further llm.invoke call and no tool call.
C4_SynthesizeEndsLoop ==
    [][ /\ (cq_pc = "decide" /\ ParsesTo(response, "SYNTHESIZE")) =>
              /\ cq_pc' = "returned"
              /\ cq_return' = TrimmedAfter(response, << "SYNTHESIZE", ":" >>)
              /\ UNCHANGED << invokes, tool_calls >>
        /\ cq_pc = "returned" => UNCHANGED << cq_pc, cq_return, invokes, tool_calls >>
      ]_vars

\* the tool name of a USE_TOOL payload: the trimmed text before "with"
ToolNameOf(detail) == Strip(SplitOnce(detail, << "with" >>)[1])

HasWith(detail) == Contains(detail, << "with" >>)

\* k is the first registered tool called name
RegisteredFirst(name, k) ==
    /\ k \in 1..Len(tools)
    /\ tools[k].name = name
    /\ \A j \in 1..(k - 1) : tools[j].name # name

\* the USE_TOOL payload names a registered tool
NamesRegisteredTool(d) ==
    /\ d.type = "USE_TOOL"
    /\ HasWith(d.detail)
    /\ \E k \in 1..Len(tools) : RegisteredFirst(ToolNameOf(d.detail), k)

\* C5 (as stated): a USE_TOOL decision that names a registered tool invokes
\* exactly one tool function once, the first registered under that name, with
\* the text after "with" as its argument, and appends exactly one
\* "[name used] result" entry; no tool is invoked on any other decision.
C5_OneToolOneUsedEntry ==
    [][ cq_pc = "decide" /\ ~parse_decision(response).raised =>
          LET d == parse_decision(response)
          IN  /\ NamesRegisteredTool(d) =>
                    \E k \in 1..Len(tools) :
                        /\ RegisteredFirst(ToolNameOf(d.detail), k)
                        /\ Len(tool_calls') = 1
                        /\ tool_calls'[1].func = tools[k].func
                        /\ tool_calls'[1].input = TrimmedAfter(d.detail, << "with" >>)
                        /\ tool_results' = Append(tool_results,
                              UsedEntry(tools[k].name, ToolOutput(tools[k].func)))
              /\ d.type # "USE_TOOL" => tool_calls' = << >>
      ]_vars

\* C5 (amended): a USE_TOOL decision that names a registered tool invokes
\* exactly one tool function once, the first registered under that name, with
\* the text after "with" as its argument; when that function returns, exactly
\* one "[name used] result" entry is appended, and when it raises, exactly one
\* "[ERROR] Failed to use tool" entry is appended instead; no tool is invoked
\* on any other decision.
C5_OneToolPerDecision ==
    [][ cq_pc = "decide" /\ ~parse_decision(response).raised =>
          LET d == parse_decision(response)
          IN  /\ NamesRegisteredTool(d) =>
                    \E k \in 1..Len(tools) :
                        /\ RegisteredFirst(ToolNameOf(d.detail), k)
                        /\ Len(tool_calls') = 1
                        /\ tool_calls'[1].func = tools[k].func
                        /\ tool_calls'[1].input = TrimmedAfter(d.detail, << "with" >>)
                        /\ tool_calls'[1].outcome = "returned" =>
                              tool_results' = Append(tool_results,
                                  UsedEntry(tools[k].name, ToolOutput(tools[k].func)))
                        /\ tool_calls'[1].outcome = "raised" =>
                              tool_results' = Append(tool_results, ErrorEntry("ToolError"))
              /\ d.type # "USE_TOOL" => tool_calls' = << >>
      ]_vars

\* reached: the name shared by two registered tools was asked for, the first
\* of them ran once on the argument "q", and its entry is the only one
C5_Witness ==
    /\ cq_pc = "loop"
    /\ i = 2
    /\ tool_calls = << [func |-> "sec_search_tool", input |-> << "q" >>,
                        outcome |-> "returned"] >>
    /\ tool_results = << UsedEntry(<< "SEC_SEARCH" >>, ToolOutput("sec_search_tool")) >>

\* C6: a failure while executing a USE_TOOL decision (unregistered name, no
\* "with", the tool function raising) invokes no further tool in that
\* iteration, appends exactly one "[ERROR] Failed to use tool" entry, and the
\* loop goes on to the next iteration.
C6_ToolFailureIsLocal ==
    [][ cq_pc = "decide" /\ ParsesTo(response, "USE_TOOL") =>
          LET d == parse_decision(response)
              new == Len(tool_calls') - Len(tool_calls)
              failed == \/ ~HasWith(d.detail)
                        \/ FirstTool(ToolNameOf(d.detail)) = 0
                        \/ (new > 0 /\ tool_calls'[Len(tool_calls')].outcome = "raised")
          IN  failed =>
                /\ new <= 1
                /\ (~HasWith(d.detail) \/ FirstTool(ToolNameOf(d.detail)) = 0) => new = 0
                /\ SubSeq(tool_calls', 1, Len(tool_calls)) = tool_calls
                /\ Len(tool_results') = Len(tool_results) + 1
                /\ SubSeq(tool_results', 1, Len(tool_results)) = tool_results
                /\ tool_results'[Len(tool_results')].kind = "error"
                /\ tool_results'[Len(tool_results')].text[1] = "Failed to use tool"
                /\ cq_pc' = "loop"
                /\ i' = i + 1
      ]_vars

\* reached: an unregistered tool name in iteration 1, then a raising tool in
\* iteration 2, one error entry each, and the loop is still running
C6_Witness ==
    /\ tool_results = << ErrorEntry("StopIteration"), ErrorEntry("ToolError") >>
    /\ Len(tool_calls) = 1
    /\ tool_calls[1].outcome = "raised"
    /\ cq_pc = "loop"
    /\ i = 3

\* ------------------------------------------------------------------------
\* Claims about basic_or_assumption_question
\* ------------------------------------------------------------------------

IsPrefix(a, b) == Len(a) <= Len(b) /\ SubSeq(b, 1, Len(a)) = a

\* the steps in the order of the specification
StepOrder ==
    << "FORMULA_DISCOVERY", "INITIAL_SEARCH", "DRAFT_ATTEMPT", "COMPLETENESS_CHECK",
       "EXPANDED_SEARCH", "FINAL_ATTEMPT" >>

Entered(step) == \E n \in 1..Len(steps) : steps[n] = step

\* the step bq_pc points at is the one after the steps entered so far
NextInOrder ==
    \/ bq_pc \in {"not_called", "returned", "raised"}
    \/ /\ Len(steps) < Len(StepOrder)
       /\ bq_pc = StepOrder[Len(steps) + 1]

\* C7: basic_or_assumption_question enters its steps only in the order
\* FORMULA_DISCOVERY, INITIAL_SEARCH, DRAFT_ATTEMPT, COMPLETENESS_CHECK, then
\* EXPANDED_SEARCH followed by FINAL_ATTEMPT: the steps entered so far are
\* always an initial part of that order (none repeated, none out of place),
\* the step about to start is the next one of the order, the function
\* returns only after COMPLETENESS_CHECK, and FINAL_ATTEMPT is entered only
\* after a COMPLETENESS_CHECK that reported INCOMPLETE.
C7_StepsInOrder ==
    /\ IsPrefix(steps, StepOrder)
    /\ NextInOrder
    /\ bq_pc = "returned" => Entered("COMPLETENESS_CHECK")
    /\ Entered("FINAL_ATTEMPT") =>
          /\ Entered("COMPLETENESS_CHECK")
          /\ analysis_result.completeness = "INCOMPLETE"

\* reached: a run that went through all six steps, both attempts made
C7_Witness ==
    /\ steps = StepOrder
    /\ Len(attempts) = 2
    /\ ~attempts[2].outcome.raised
    /\ bq_pc = "raised"
    /\ bq_exception = "SystemExit"

\* the reply of the draft attempt announces a calculation with every value in
DraftIsReady ==
    /\ Len(attempts) >= 1
    /\ attempts[1].step = "DRAFT_ATTEMPT"
    /\ ~attempts[1].outcome.raised
    /\ Contains(attempts[1].outcome.text, CALCULATION_READY_)

BQ_Terminated == bq_pc \in {"returned", "raised"}

\* C8: when the draft attempt has all the information it needs, the
\* completeness check yields COMPLETE and the pipeline terminates with the
\* draft attempt's output as the final answer, without the expanded search
\* and without the final attempt; the INCOMPLETE branch is taken only when
\* the check reports missing terms.
C8_CompleteEndsWithDraft ==
    /\ (DraftIsReady /\ Entered("COMPLETENESS_CHECK")) =>
          /\ analysis_result.completeness = "COMPLETE"
          /\ ~Entered("EXPANDED_SEARCH")
          /\ ~Entered("FINAL_ATTEMPT")
          /\ bq_pc = "returned"
          /\ bq_return = step3_result.attempt_result
    /\ Entered("EXPANDED_SEARCH") => analysis_result.missing_info # << >>

\* reached: the draft attempt was ready, and the expanded search and the
\* final attempt ran all the same
C8_Witness ==
    /\ DraftIsReady
    /\ analysis_result.completeness = "INCOMPLETE"
    /\ Entered("EXPANDED_SEARCH")
    /\ Entered("FINAL_ATTEMPT")

\* no llm.invoke of the run raised
AllLLMCallsReturned == bq_exception # "LLMError"

\* C9: a run of basic_or_assumption_question in which all LLM calls return
\* ends in DONE: once it is over, the last entry of the log is the
\* execution-end entry carrying the final answer, and the final attempt's
\* output has been returned to the caller.
C9_EndsInDone ==
    (BQ_Terminated /\ AllLLMCallsReturned) =>
        /\ bq_pc = "returned"
        /\ step_logs # << >>
        /\ step_logs[Len(step_logs)] = LogEntry("EXECUTION_END", "", final_answer)
        /\ bq_return = final_answer
        /\ Entered("FINAL_ATTEMPT") => bq_return = step5_result.attempt_result

\* reached: every LLM call returned, the final attempt produced its answer,
\* and the run ended in SystemExit with no execution-end entry in the log
C9_Witness ==
    /\ bq_pc = "raised"
    /\ bq_exception = "SystemExit"
    /\ Len(attempts) = 2
    /\ final_answer = step5_result.attempt_result
    /\ final_answer # << >>
    /\ \A n \in 1..Len(step_logs) : step_logs[n].name # "EXECUTION_END"

\* C10: the formula does not change between attempts: every call of
\* step3_attempt_answer, the draft's and the final one, is given the formula
\* that step 1 produced.
C10_SameFormula ==
    \A n \in 1..Len(attempts) : attempts[n].formula = step1_result.formula

\* reached: the draft attempt ran on the formula of step 1 and the final
\* attempt on another one
C10_Witness ==
    /\ Len(attempts) = 2
    /\ attempts[1].formula = step1_result.formula
    /\ attempts[2].step = "FINAL_ATTEMPT"
    /\ attempts[2].formula # attempts[1].formula

\* the text handed to the final attempt
FinalBlob == attempts[2].extracted_info

FinalAttemptMade == Len(attempts) = 2 /\ attempts[2].step = "FINAL_ATTEMPT"

\* C11: the accumulated extracted-info text only grows: the text handed to
\* the final attempt starts with the text the initial search produced, and
\* it is strictly longer exactly when the expanded search found at least one
\* snippet.
C11_BlobOnlyGrows ==
    /\ Entered("EXPANDED_SEARCH") /\ bq_pc = "FINAL_ATTEMPT" =>
          IsPrefix(extracted_info, all_extracted_info)
    /\ FinalAttemptMade =>
          /\ IsPrefix(extracted_info, FinalBlob)
          /\ FinalBlob = all_extracted_info
          /\ Len(FinalBlob) > Len(extracted_info) <=> step4_result.snippets > 0

\* reached: the initial search had found something, the expanded search
\* found a snippet, and the final attempt was handed both
C11_Witness ==
    /\ FinalAttemptMade
    /\ extracted_info # << >>
    /\ step4_result.snippets > 0
    /\ Len(FinalBlob) > Len(extracted_info)

\* some llm.invoke of the run raised
AnLLMCallRaised ==
    \/ bq_exception = "LLMError"
    \/ \E n \in 1..Len(attempts) : attempts[n].outcome.raised

\* C12: when llm.invoke raises in a step of basic_or_assumption_question,
\* the step degrades to a default result and the pipeline goes on: the
\* exception never leaves the function, and a run with a raising draft
\* attempt still gets to the completeness check.
C12_LLMFailureDegrades ==
    /\ ~(bq_pc = "raised" /\ bq_exception = "LLMError")
    /\ (Len(attempts) >= 1 /\ attempts[1].outcome.raised /\ BQ_Terminated) =>
          Entered("COMPLETENESS_CHECK")

\* reached: llm.invoke raised in the draft attempt and the exception left
\* the function before the completeness check
C12_Witness ==
    /\ bq_pc = "raised"
    /\ bq_exception = "LLMError"
    /\ steps = << "FORMULA_DISCOVERY", "INITIAL_SEARCH", "DRAFT_ATTEMPT" >>
    /\ attempts[1].outcome.raised

\* the names of the entries a step logs once it has run to its end
LoggedBy(step) ==
    CASE step = "FORMULA_DISCOVERY" -> << "EXECUTION_START", "step1_formula_analysis" >>
      [] step = "INITIAL_SEARCH" -> << "step2_initial_rag_search" >>
      [] step = "DRAFT_ATTEMPT" -> << "step3_attempt_answer" >>
      [] step = "COMPLETENESS_CHECK" -> << "analyze_completeness", "DECISION" >>
      [] step = "EXPANDED_SEARCH" -> << "expanded_search_for_missing_info" >>
      [] step = "FINAL_ATTEMPT" -> << "step5_final_attempt" >>

\* the step entered last was left by an exception before its logging call
LastStepCutShort == bq_pc = "raised" /\ bq_exception # "SystemExit"

\* the names of the entries the logging calls made so far were given
ExpectedLogNames ==
    LET F[n \in 0..Len(steps)] ==
            IF n = 0 THEN << >>
            ELSE IF n = Len(steps) /\ LastStepCutShort THEN
                F[n - 1] \o (IF steps[n] = "FORMULA_DISCOVERY"
                             THEN << "EXECUTION_START" >> ELSE << >>)
            ELSE F[n - 1] \o LoggedBy(steps[n])
    IN  F[Len(steps)] \o (IF bq_pc = "returned" THEN << "EXECUTION_END" >> ELSE << >>)

LogNames == [n \in 1..Len(step_logs) |-> step_logs[n].name]

\* C13: logging is observational only: whichever file writes fail,
\* step_logs holds exactly one entry per logging call made, in the order of
\* the calls, none lost; the file holds no more entries than step_logs; and
\* the only exceptions that leave the pipeline are those of the LLM and of
\* the pipeline's own code, never one of a file write.
C13_LoggingIsObservational ==
    /\ LogNames = ExpectedLogNames
    /\ log_file <= Len(step_logs)
    /\ bq_pc = "raised" <=> bq_exception \in {"LLMError", "NameError", "SystemExit"}
    /\ bq_pc # "raised" => bq_exception = ""

\* reached: every write to the log file failed, and the run went through
\* all its steps to the final answer with all eight entries in step_logs
C13_Witness ==
    /\ log_file = 0
    /\ Len(step_logs) = 8
    /\ steps = StepOrder
    /\ bq_exception = "SystemExit"
    /\ final_answer # << >>

\* the terms the initial search looks for, and the dictionary it builds
Step2Terms == AllSearchTerms(step1_result.key_terms, step1_result.synonyms)

Step2Found == SearchTerms(Step2Terms, context, << >>)

OccursIn(ctx, term) == Contains(Lower(ctx), Lower(term))

\* C14: for every context and search term of step2_initial_rag_search: a
\* term that occurs (case-insensitively) in the context has a non-empty
\* snippet in the result, and the snippet contains the term; a term that
\* does not occur has no entry.
C14_SearchFindsOccurringTerms ==
    Entered("INITIAL_SEARCH") =>
        /\ extracted_info = Join([n \in 1..Len(Step2Found) |->
                                    Step2Found[n].k \o COLON_SPACE \o Step2Found[n].v],
                                 BLANK_LINE)
        /\ \A n \in 1..Len(Step2Terms) :
              LET term == Step2Terms[n]
              IN  IF OccursIn(context, term) THEN
                      /\ DictHas(Step2Found, term)
                      /\ DictGet(Step2Found, term) # << >>
                      /\ OccursIn(DictGet(Step2Found, term), term)
                  ELSE ~DictHas(Step2Found, term)

\* reached: the term "tax" occurs in the context "Income tax 9", no full
\* stop follows it, and the search came back with nothing
C14_Witness ==
    /\ Entered("INITIAL_SEARCH")
    /\ context = CONTEXT_NO_STOP
    /\ \E n \in 1..Len(Step2Terms) :
          /\ Step2Terms[n] = << "t", "a", "x" >>
          /\ OccursIn(context, Step2Terms[n])
    /\ extracted_info = << >>

\* ------------------------------------------------------------------------
\* Claims about tools/calculator.py
\* ------------------------------------------------------------------------

\* extract_numerical_values has returned
Extracted == fn_pc = "returned" /\ fn_call.fn = "extract_numerical_values"

\* perform_financial_calculation has returned
Performed == fn_pc = "returned" /\ fn_call.fn = "perform_financial_calculation"

\* the amount in millions, in thousandths: its own unit applied once
InMillions(a) ==
    IF a.unit = W_billion THEN a.number * SCALE * 1000
    ELSE IF a.unit = W_thousand THEN (a.number * SCALE) \div 1000
    ELSE a.number * SCALE

\* C15: every value extract_numerical_values returns for a text of labelled
\* amounts, each with its own unit, is that amount in millions: the amount's
\* own unit converted, once.
C15_EachValueInMillions ==
    Extracted =>
        \A n \in 1..Len(fn_call.amounts) :
            LET a == fn_call.amounts[n]
            IN  /\ DictHas(fn_return, Labels[a.label].term)
                /\ DictGet(fn_return, Labels[a.label].term) = InMillions(a)

\* reached: "revenue 2 billion; cost of goods sold 180 million" came back
\* with 180000 for the cost of goods sold, the billion of the revenue
\* applied to it
C15_Witness ==
    /\ Extracted
    /\ Len(fn_call.amounts) = 2
    /\ fn_call.amounts[1] = [label |-> 1, number |-> 2, unit |-> W_billion]
    /\ fn_call.amounts[2] = [label |-> 2, number |-> 180, unit |-> W_million]
    /\ DictGet(fn_return, "revenue") = 2000 * SCALE
    /\ DictGet(fn_return, "cost of goods sold") = 180000 * SCALE

\* "w" in formula_lower, for the formula of the call
FormulaHas(w) == Contains(Lower(fn_call.formula), w)

\* C16: the gross-profit computation (revenue minus cost of goods sold,
\* missing facts 0) is selected exactly when the lowercased formula contains
\* "revenue" and also "cogs" or "cost"; "Gross Profit = Revenue - COGS" with
\* revenue 254453 and cost of goods sold 222358 yields 32095.
C16_GrossProfitDispatch ==
    Performed =>
        /\ fn_return.rule = "gross profit"
              <=> FormulaHas(W_revenue) /\ (FormulaHas(W_cogs) \/ FormulaHas(W_cost))
        /\ fn_return.rule = "gross profit" =>
              /\ ~fn_return.none
              /\ fn_return.value =
                    Get(fn_call.numerical_values, "revenue", 0)
                    - Get(fn_call.numerical_values, "cost of goods sold",
                          Get(fn_call.numerical_values, "cogs", 0))
        /\ /\ fn_call.formula = GROSS_PROFIT_FORMULA
           /\ Get(fn_call.numerical_values, "revenue", 0) = 254453 * SCALE
           /\ Get(fn_call.numerical_values, "cost of goods sold", 0) = 222358 * SCALE
           => fn_return.value = 32095 * SCALE

\* reached: the formula "Total Cost", which holds "cost" and not "revenue",
\* was computed as a gross profit
C16_Witness ==
    /\ Performed
    /\ fn_call.formula = TOTAL_COST_FORMULA
    /\ ~FormulaHas(W_revenue)
    /\ fn_return.rule = "gross profit"
    /\ fn_return.value =
          0 - Get(fn_call.numerical_values, "cost of goods sold",
                  Get(fn_call.numerical_values, "cogs", 0))

\* C17: a formula that contains "ebitda" and has no revenue/cost shape
\* returns operating income plus depreciation, each 0 when absent.
C17_EbitdaAddsDepreciation ==
    /\ Performed
    /\ FormulaHas(W_ebitda)
    /\ ~(FormulaHas(W_revenue) /\ FormulaHas(W_cogs))
    /\ ~FormulaHas(W_cost)
    => /\ ~fn_return.none
       /\ fn_return.value =
             Get(fn_call.numerical_values, "operating income", 0)
             + Get(fn_call.numerical_values, "depreciation", 0)

\* reached: "EBITDA" with operating income 10 and depreciation 5 returned
\* 10, by the rule for "ebit", which every "ebitda" formula contains
C17_Witness ==
    /\ Performed
    /\ fn_call.formula = EBITDA_FORMULA
    /\ Get(fn_call.numerical_values, "operating income", 0) = 10 * SCALE
    /\ Get(fn_call.numerical_values, "depreciation", 0) = 5 * SCALE
    /\ fn_return.rule = "operating income"
    /\ fn_return.value = 10 * SCALE

\* the shapes the claim C18 lists
RecognisedShape ==
    \/ FormulaHas(W_revenue) /\ (FormulaHas(W_cogs) \/ FormulaHas(W_cost))
    \/ FormulaHas(W_operating_income)
    \/ FormulaHas(W_ebit)
    \/ FormulaHas(W_ebitda)
    \/ FormulaHas(W_operating_margin)
    \/ FormulaHas(W_gross_margin)

\* C18: for a formula of none of the recognised shapes
\* perform_financial_calculation returns None, never a number, whatever the
\* facts.
C18_UnrecognisedIsNone ==
    Performed /\ ~RecognisedShape => fn_return.none

\* reached: "Total Cost", of no recognised shape, with no facts returned 0
C18_Witness ==
    /\ Performed
    /\ fn_call.formula = TOTAL_COST_FORMULA
    /\ fn_call.numerical_values = << >>
    /\ ~RecognisedShape
    /\ ~fn_return.none
    /\ fn_return.value = 0

\* ------------------------------------------------------------------------
\* Claims about the bracketed JSON of a reply
\* ------------------------------------------------------------------------

\* one of the two parsers has returned
Parsed == fn_pc = "returned" /\ fn_call.fn \in { "step1_formula_analysis",
                                                 "expanded_search_for_missing_info" }

\* C19: for a valid JSON object after the marker (SYNONYMS: in
\* step1_formula_analysis, EXPANDED_TERMS: in
\* expanded_search_for_missing_info) with prose after it, on the same line or
\* on later lines, the parsed mapping equals the object.
C19_ParsedMappingIsTheObject ==
    Parsed /\ fn_call.trailing # "none" =>
        /\ fn_return.loaded
        /\ fn_return.mapping = JsonValues[fn_call.object]

\* reached: step1_formula_analysis was handed
\* SYNONYMS: {"a": ["b"]} as asked, and its synonyms are the fallback table
C19_Witness ==
    /\ Parsed
    /\ fn_call.fn = "step1_formula_analysis"
    /\ fn_call.object = 1
    /\ fn_call.layout = "same line"
    /\ fn_call.trailing = "same line"
    /\ ~fn_return.loaded
    /\ fn_return.mapping = << [k |-> << "a" >>, v |-> << << "a" >> >>] >>

\* C27: the bracketed JSON falls back to the heuristic synonym table in both
\* failure cases, a decode that throws and a marker followed by no opening
\* brace or by no matching closing brace: the mapping is the table of the
\* terms supplied (the key term a of the formula reply, the missing term
\* "pre tax income" of the expanded search), never empty.
C27_FallbackInBothFailureCases ==
    Parsed /\ fn_call.damage # "none" =>
        /\ ~fn_return.loaded
        /\ fn_return.mapping # << >>
        /\ fn_call.fn = "step1_formula_analysis" =>
              fn_return.mapping = Step1FallbackTable(<< << "a" >> >>, << >>)
        /\ fn_call.fn = "expanded_search_for_missing_info" =>
              fn_return.mapping =
                  ExpandedFallbackTable(<< HARDCODED_MISSING_INFO >>, << >>)

\* reached: expanded_search_for_missing_info was handed EXPANDED_TERMS: with
\* an object whose closing brace is missing, and its expanded_terms are empty
C27_Witness ==
    /\ Parsed
    /\ fn_call.fn = "expanded_search_for_missing_info"
    /\ fn_call.damage = "no closing brace"
    /\ fn_return.mapping = << >>

\* ------------------------------------------------------------------------
\* Claims about the final answer
\* ------------------------------------------------------------------------

W_uncomputable == << "u", "n", "c", "o", "m", "p", "u", "t", "a", "b", "l", "e" >>
W_unable_to_determine == << "u", "n", "a", "b", "l", "e", " ", "t", "o", " ", "d", "e", "t", "e", "r", "m", "i", "n", "e" >>

\* an explicit "uncomputable" / "unable to determine" result
Uncomputable(answer) ==
    \/ Contains(Lower(answer), W_uncomputable)
    \/ Contains(Lower(answer), W_unable_to_determine)

\* the expanded search ran and found no snippet for the missing term
StillAbsent == step4_result.bound /\ step4_result.snippets = 0

\* the final attempt's llm.invoke returned and final_answer was assigned
FinalAnswerAssigned ==
    /\ FinalAttemptMade
    /\ ~attempts[2].outcome.raised
    /\ bq_exception = "SystemExit"

\* C20: when the missing term is still absent after the expanded search, the
\* final answer is an explicit "uncomputable" / "unable to determine"
\* result, never the raw reply of the model and never a calculation.
C20_AbsentTermIsUncomputable ==
    FinalAnswerAssigned /\ StillAbsent =>
        /\ Uncomputable(final_answer)
        /\ final_answer # attempts[2].outcome.text
        /\ ~Contains(attempts[2].outcome.text, CALCULATION_READY_)

\* reached: the expanded search found nothing, the final reply was
\* "MISSING_INFO: tax", and that reply is the final answer, word for word
C20_Witness ==
    /\ FinalAnswerAssigned
    /\ StillAbsent
    /\ attempts[2].outcome.text = ATTEMPT_MISSING
    /\ final_answer = ATTEMPT_MISSING
    /\ ~Uncomputable(final_answer)

\* ------------------------------------------------------------------------
\* Claims about the snippets of step2_initial_rag_search
\* ------------------------------------------------------------------------

\* the raw window around the first occurrence of the term:
\* context[max(0, pos - 300) : min(len(context), pos + len(term) + 300)]
RawWindow(ctx, term) ==
    LET pos == Find(Lower(ctx), Lower(term))
    IN  Slice(ctx, Max(0, pos - WINDOW), Min(Len(ctx), pos + Len(term) + WINDOW))

\* "\n\n".join(f"{term}: {text}" for term, text in extracted_info.items())
BlobOf(found) ==
    Join([n \in 1..Len(found) |-> found[n].k \o COLON_SPACE \o found[n].v], BLANK_LINE)

\* C21: the snippet step2_initial_rag_search returns for a matched term
\* covers the whole raw window around the first occurrence of the term
\* (sentence snapping only widens it).
C21_SnippetCoversRawWindow ==
    Entered("INITIAL_SEARCH") =>
        /\ extracted_info = BlobOf(Step2Found)
        /\ \A n \in 1..Len(Step2Found) :
              Contains(Step2Found[n].v, Strip(RawWindow(context, Step2Found[n].k)))

\* reached: in "Rev 5. Tax 9." the raw window of "tax" is the whole context,
\* and the snippet is "Tax 9.", cut at the full stop before the term
C21_Witness ==
    /\ Entered("INITIAL_SEARCH")
    /\ context = CONTEXT_BOTH
    /\ RawWindow(context, << "t", "a", "x" >>) = CONTEXT_BOTH
    /\ DictHas(Step2Found, << "t", "a", "x" >>)
    /\ DictGet(Step2Found, << "t", "a", "x" >>) = << "T", "a", "x", " ", "9", "." >>
    /\ extracted_info = BlobOf(Step2Found)

\* step2_initial_rag_search has returned
Searched == fn_pc = "returned" /\ fn_call.fn = "step2_initial_rag_search"

\* the terms searched for key term number i: its synonyms, or the term itself
Candidates(j) ==
    LET term == fn_call.key_terms[j]
    IN  IF DictHas(fn_call.synonyms, term) THEN DictGet(fn_call.synonyms, term)
        ELSE << term >>

\* the dictionary the returned text was joined from
SearchFound ==
    SearchTerms(AllSearchTerms(fn_call.key_terms, fn_call.synonyms), fn_call.context, << >>)

\* C22: each key term contributes at most one snippet: its synonyms are
\* tried in order and the search for it stops at the first synonym that
\* occurs in the context, so a later synonym has no snippet.
C22_OneSnippetPerKeyTerm ==
    Searched =>
        /\ fn_return = BlobOf(SearchFound)
        /\ Len(SearchFound) <= Len(fn_call.key_terms)
        /\ \A j \in 1..Len(fn_call.key_terms) :
              \A n \in 1..Len(Candidates(j)) :
                  DictHas(SearchFound, Candidates(j)[n]) =>
                      \A k \in 1..(n - 1) : ~OccursIn(fn_call.context, Candidates(j)[k])

\* reached: the key term "rev" with the synonyms "Rev" and "5", both in
\* "Rev 5. Tax 9.", came back with two snippets
C22_Witness ==
    /\ Searched
    /\ fn_call.key_terms = << W_rev >>
    /\ fn_call.context = CONTEXT_BOTH
    /\ Candidates(1) = << << "R", "e", "v" >>, << "5" >> >>
    /\ Len(SearchFound) = 2
    /\ fn_return = << "R", "e", "v", ":", " ", "R", "e", "v", " ", "5", ".", "\n", "\n", "5", ":", " ", "R", "e", "v", " ", "5", "." >>

\* the one unit rule, decided from the whole text
UnitRule(text, value) ==
    IF Contains(Lower(text), W_billion) THEN value * 1000
    ELSE IF Contains(Lower(text), W_thousand) THEN value \div 1000
    ELSE value

C24_ExtractNeverRaises ==
    fn_call.fn = "extract_numerical_values" =>
        /\ fn_pc # "raised"
        /\ fn_pc = "returned" /\ fn_call.text = << >> => fn_return = << >>
        /\ fn_pc = "returned" /\ fn_call.text = COMMA_THEN_COGS =>
              fn_return = << [k |-> "cost of goods sold", v |-> 7 * SCALE] >>

\* reached: "revenue ,; cogs 7" ended in the ValueError of float("")
C24_Witness ==
    /\ fn_call.fn = "extract_numerical_values"
    /\ fn_call.text = COMMA_THEN_COGS
    /\ fn_pc = "raised"

\* some pattern of the label matches the lowercased text
LabelMatches(e) ==
    \E n \in 1..Len(e.prefixes) : TermSearch(Lower(fn_call.text), e.prefixes[n]).ok

\* C25: in every result of extract_numerical_values the key "general" is
\* present only when no labelled key is: the fallback runs exactly when no
\* labelled pattern matched and adds at most one value, and a labelled key
\* takes its value from the first of its alternative patterns that matches.
C25_GeneralOnlyWithoutLabels ==
    Extracted =>
        /\ DictHas(fn_return, "general") => Len(fn_return) = 1
        /\ DictHas(fn_return, "general")
              <=> /\ \A n \in 1..Len(term_patterns) : ~LabelMatches(term_patterns[n])
                  /\ GeneralSearch(Lower(fn_call.text), {}).ok
        /\ \A n \in 1..Len(term_patterns) :
              DictHas(fn_return, term_patterns[n].term) <=> LabelMatches(term_patterns[n])
        /\ fn_call.text = REVENUE_THEN_NET_SALES =>
              fn_return = << [k |-> "revenue", v |-> 4 * SCALE] >>

\* reached: "revenue 3; net sales 4" came back with the 4 of "net sales",
\* the earlier alternative of the label revenue
C25_Witness ==
    /\ Extracted
    /\ fn_call.text = REVENUE_THEN_NET_SALES
    /\ LabelMatches(term_patterns[1])
    /\ ~DictHas(fn_return, "general")
    /\ DictGet(fn_return, "revenue") = 4 * SCALE

\* C26: perform_financial_calculation never raises: absent facts are
\* replaced by their defaults (0, or 1 for the revenue that divides in a
\* margin), and a revenue of 0 under a margin formula gives a returned value
\* (None), not a division error that leaves the function.
C26_PerformNeverRaises ==
    fn_call.fn = "perform_financial_calculation" =>
        /\ fn_pc # "raised"
        /\ Performed /\ fn_call.numerical_values = << >> =>
              \/ fn_return.none
              \/ fn_return.value = 0
        /\ Performed /\ fn_call.numerical_values = NO_REVENUE
                     /\ fn_call.formula = OPERATING_MARGIN_FORMULA =>
              fn_return = Number("operating margin", 1000 * SCALE)
        /\ Performed /\ fn_call.numerical_values = NO_REVENUE
                     /\ fn_call.formula = GROSS_MARGIN_FORMULA =>
              fn_return = Number("gross margin", 0)
        /\ Performed /\ fn_call.numerical_values = ZERO_REVENUE
                     /\ fn_call.formula \in { OPERATING_MARGIN_FORMULA, GROSS_MARGIN_FORMULA } =>
              fn_return.none

\* reached: a margin asked for with revenue 0, and None returned
C26_Witness ==
    /\ Performed
    /\ fn_call.formula = OPERATING_MARGIN_FORMULA
    /\ fn_call.numerical_values = ZERO_REVENUE
    /\ calculation(fn_call.formula, fn_call.numerical_values).raised
    /\ fn_return = None("operating margin")

\* step3_attempt_answer has returned
Attempted == fn_pc = "returned" /\ fn_call.fn = "step3_attempt_answer"

\* all of the text after the first occurrence of the marker
AfterFirst(text, marker) == Slice(text, Find(text, marker) + Len(marker), Len(text))

\* the first line of a text, without the blanks around it; blank lines before
\* it are passed over
FirstLine(text) ==
    LET t == Strip(text)
        n == Find(t, NL)
    IN  Strip(IF n = -1 THEN t ELSE Slice(t, 0, n))

\* C28: with "CALCULATION_READY:" in the reply, attempt_result is the first
\* line of the text after the first such marker and result_explanation the
\* first line after "RESULT_EXPLANATION:" when that marker is present, empty
\* otherwise; without "CALCULATION_READY:", attempt_result is the whole raw
\* reply and result_explanation is empty, whatever MISSING_INFO or
\* INSUFFICIENT_INFO markers the reply carries.
C28_AttemptReplyParsing ==
    Attempted =>
        IF Contains(fn_call.reply, CALCULATION_READY_) THEN
            /\ fn_return.attempt_result =
                  FirstLine(AfterFirst(fn_call.reply, CALCULATION_READY_))
            /\ fn_return.result_explanation =
                  IF Contains(fn_call.reply, RESULT_EXPLANATION_)
                  THEN FirstLine(AfterFirst(fn_call.reply, RESULT_EXPLANATION_))
                  ELSE << >>
        ELSE
            /\ fn_return.attempt_result = fn_call.reply
            /\ fn_return.result_explanation = << >>

\* reached: the reply holds "CALCULATION_READY: 5 CALCULATION_READY: 6" on
\* one line, and attempt_result is "5" alone
C28_Witness ==
    /\ Attempted
    /\ fn_call.opening = "none"
    /\ fn_call.ready = "twice on a line"
    /\ fn_call.explanation = "none"
    /\ fn_call.report = "none"
    /\ fn_return.attempt_result = << "5" >>

\* the candidate list has been made
Listed == fn_pc = "returned" /\ fn_call.fn = "expanded_search_for_missing_info"

\* the place where a candidate first appears, ignoring case, in a sequence
FirstAppearance(terms, term) ==
    CHOOSE n \in 1..Len(terms) :
        /\ Lower(terms[n]) = Lower(term)
        /\ \A k \in 1..(n - 1) : Lower(terms[k]) # Lower(term)

\* C29: the candidate list of expanded_search_for_missing_info holds no two
\* entries that are equal ignoring case, holds every full synonym in some
\* letter case, and keeps the candidates in the order of their first
\* appearance in the generated sequence (each synonym, then its words, its
\* bigrams and its trigrams).
C29_CandidatesUniqueInFirstSeenOrder ==
    Listed =>
        LET all_search_terms == DictValuesConcat(fn_call.expanded_terms)
            generated == sub_component_terms(fn_call.expanded_terms)
        IN  /\ \A a, b \in 1..Len(fn_return) :
                  a # b => Lower(fn_return[a]) # Lower(fn_return[b])
            /\ \A n \in 1..Len(all_search_terms) :
                  \E a \in 1..Len(fn_return) :
                      Lower(fn_return[a]) = Lower(all_search_terms[n])
            /\ \A a \in 1..Len(fn_return) :
                  /\ \E n \in 1..Len(generated) : generated[n] = fn_return[a]
                  /\ fn_return[a] = generated[FirstAppearance(generated, fn_return[a])]
            /\ \A a, b \in 1..Len(fn_return) :
                  a < b => FirstAppearance(generated, fn_return[a])
                             < FirstAppearance(generated, fn_return[b])

\* reached: the synonyms "tax" and "Pre Tax Income" gave tax, Pre Tax Income,
\* pre, income, pre tax, tax income: the word tax and the trigram are there
\* already
C29_Witness ==
    /\ Listed
    /\ DictValuesConcat(fn_call.expanded_terms) = << << "t", "a", "x" >>, << "P", "r", "e", " ", "T", "a", "x", " ", "I", "n", "c", "o", "m", "e" >> >>
    /\ fn_return = << << "t", "a", "x" >>, << "P", "r", "e", " ", "T", "a", "x", " ", "I", "n", "c", "o", "m", "e" >>, << "p", "r", "e" >>, << "i", "n", "c", "o", "m", "e" >>, << "p", "r", "e", " ", "t", "a", "x" >>, << "t", "a", "x", " ", "i", "n", "c", "o", "m", "e" >> >>

\* the final attempt has been entered
FinalAttemptEntered == Entered("FINAL_ATTEMPT")

====
